---- MODULE Spec2Model ----
(***************************************************************************)
(* Session state store and map cache of the Marble-Seoul dashboard         *)
(* (src/marbleseoul/core/cache_manager.py, core/map_manager.py).           *)
(*                                                                         *)
(* st.session_state is one dictionary: the selection fields, the chat      *)
(* history and the cached map HTML all live in it under string keys.  It   *)
(* is modelled as one function from keys to values.  Python's None is the  *)
(* empty tuple and a present optional value v is <<v>>.                    *)
(***************************************************************************)
EXTENDS Integers, Sequences, FiniteSets, TLC

\* query_params is the entry of st.query_params under "map_selected_district"
\* (None when the URL has no such parameter).
VARIABLES session_state, last, query_params

\* The operation of the last call comes first so that two call records are
\* told apart by their operation before their arguments are compared.
vars == <<session_state, last.op, last, query_params>>

(***************************************************************************)
(* Bounds of the model.                                                    *)
(***************************************************************************)
MaxMsgs == 2
MaxCompLen == 2
MaxCached == 3
MaxRows == 3
MaxGu == 27
MaxAppMsgs == 3
MaxAppCached == 6
MaxFailures == 2

(***************************************************************************)
(* Values.                                                                 *)
(***************************************************************************)
None == <<>>
Some(v) == <<v>>
Val(o) == o[1]

\* Python truthiness of an optional string: None and "" are falsy.
TruthyStr(o) == o # None /\ Val(o) # ""

\* Python truthiness of a list.
TruthyList(l) == Len(l) > 0

VALID_VIEW_STAGES == {"overview", "gu_ranking", "district_selected", "comparison"}

VALID_COMPARISON_MODES == {None, Some("adjacent"), Some("similar_price")}

NumQuintiles == 5

Districts == {"Gangnam", "Seocho"}

\* Roles add_message is called with: an expected one and an unexpected one.
Roles == {"user", "system"}

(***************************************************************************)
(* Inputs the operations are called with.                                  *)
(***************************************************************************)

\* A district argument: a string (possibly empty), a non-string, or None.

\* A quintile argument: None, an int, or a non-int number (a float).

RECURSIVE SeqsUpTo(_, _)
SeqsUpTo(S, n) ==
    IF n = 0 THEN {<<>>}
    ELSE LET shorter == SeqsUpTo(S, n - 1)
         IN  shorter \cup {Append(q, x) : q \in shorter, x \in S}

NoDup(q) == \A i, j \in 1..Len(q) : i # j => q[i] # q[j]

DistrictLists == {q \in SeqsUpTo(Districts, MaxCompLen) : NoDup(q)}

\* A comparison-districts argument: a list, or something that is not a list.

ContentInputs == {"hi"} \cup {""}

(***************************************************************************)
(* init_session_state: the state after construction.                       *)
(***************************************************************************)
init_session_state ==
    [messages |-> <<>>,
     map_html |-> None,
     ranking_df |-> None,
     view_stage |-> "overview",
     selected_district |-> None,
     selected_quintile |-> None,
     user_input |-> "",
     comparison_mode |-> None,
     comparison_districts |-> <<>>]

\* The State Store fields of a session.
StoreFields(s) ==
    <<s.view_stage, s.selected_district, s.selected_quintile,
      s.comparison_mode, s.comparison_districts, s.messages>>

(***************************************************************************)
(* Validation.                                                             *)
(***************************************************************************)
validate_view_stage(stage) == stage \in VALID_VIEW_STAGES

validate_comparison_mode(mode) == mode \in VALID_COMPARISON_MODES

\* validate_session_state without the check of lines 85-90.
validate_session_state_no_district_check(s) ==
    IF \E key \in {"view_stage", "selected_district", "comparison_mode"} :
          key \notin DOMAIN s
    THEN FALSE
    ELSE IF ~validate_view_stage(s.view_stage)
    THEN FALSE
    ELSE IF ~validate_comparison_mode(s.comparison_mode)
    THEN FALSE
    ELSE TRUE

validate_session_state(s) ==
    IF \E key \in {"view_stage", "selected_district", "comparison_mode"} :
          key \notin DOMAIN s
    THEN FALSE
    ELSE IF ~validate_view_stage(s.view_stage)
    THEN FALSE
    ELSE IF ~validate_comparison_mode(s.comparison_mode)
    THEN FALSE
    ELSE IF s.view_stage = "comparison" /\ ~TruthyStr(s.selected_district)
    THEN FALSE
    ELSE TRUE

(***************************************************************************)
(* State-changing operations.  Each takes the session dictionary and       *)
(* yields the new dictionary and the value returned.                       *)
(***************************************************************************)
Result(s, r) == [st |-> s, ret |-> r]

\* clear_comparison_mode without the assignment of line 266.
clear_comparison_mode_keep_districts(s) ==
    Result([s EXCEPT !.comparison_mode = None], None)

clear_comparison_mode(s) ==
    Result([s EXCEPT !.comparison_mode = None, !.comparison_districts = <<>>],
           None)

\* update_view_stage without the redirect of lines 148-156.
update_view_stage_no_redirect(s, stage) ==
    IF ~validate_view_stage(stage)
    THEN Result(s, FALSE)
    ELSE LET s1 == [s EXCEPT !.view_stage = stage]
         IN  CASE stage = "overview" ->
                    Result(clear_comparison_mode(
                               [s1 EXCEPT !.selected_district = None,
                                          !.selected_quintile = None]).st,
                           TRUE)
               [] stage = "gu_ranking" ->
                    Result(clear_comparison_mode(
                               [s1 EXCEPT !.selected_district = None]).st,
                           TRUE)
               [] stage = "district_selected" ->
                    Result(clear_comparison_mode(s1).st, TRUE)
               [] stage = "comparison" -> Result(s1, TRUE)

\* update_view_stage clearing the comparison state in the "comparison"
\* branch as well.
update_view_stage_comparison_clears(s, stage) ==
    IF ~validate_view_stage(stage)
    THEN Result(s, FALSE)
    ELSE LET s1 == [s EXCEPT !.view_stage = stage]
         IN  CASE stage = "overview" ->
                    Result(clear_comparison_mode(
                               [s1 EXCEPT !.selected_district = None,
                                          !.selected_quintile = None]).st,
                           TRUE)
               [] stage = "gu_ranking" ->
                    Result(clear_comparison_mode(
                               [s1 EXCEPT !.selected_district = None]).st,
                           TRUE)
               [] stage = "district_selected" ->
                    Result(clear_comparison_mode(s1).st, TRUE)
               [] stage = "comparison" ->
                    IF ~TruthyStr(s1.selected_district)
                    THEN Result([s1 EXCEPT !.view_stage = "district_selected"],
                                TRUE)
                    ELSE Result(clear_comparison_mode(s1).st, TRUE)

\* update_view_stage keeping the selected district in the ranking view.
update_view_stage_keep_district(s, stage) ==
    IF ~validate_view_stage(stage)
    THEN Result(s, FALSE)
    ELSE LET s1 == [s EXCEPT !.view_stage = stage]
         IN  CASE stage = "overview" ->
                    Result(clear_comparison_mode(
                               [s1 EXCEPT !.selected_district = None,
                                          !.selected_quintile = None]).st,
                           TRUE)
               [] stage = "gu_ranking" ->
                    Result(clear_comparison_mode(s1).st, TRUE)
               [] stage = "district_selected" ->
                    Result(clear_comparison_mode(s1).st, TRUE)
               [] stage = "comparison" ->
                    IF ~TruthyStr(s1.selected_district)
                    THEN Result([s1 EXCEPT !.view_stage = "district_selected"],
                                TRUE)
                    ELSE Result(s1, TRUE)

update_view_stage(s, stage) ==
    IF ~validate_view_stage(stage)
    THEN Result(s, FALSE)
    ELSE LET s1 == [s EXCEPT !.view_stage = stage]
         IN  CASE stage = "overview" ->
                    Result(clear_comparison_mode(
                               [s1 EXCEPT !.selected_district = None,
                                          !.selected_quintile = None]).st,
                           TRUE)
               [] stage = "gu_ranking" ->
                    Result(clear_comparison_mode(
                               [s1 EXCEPT !.selected_district = None]).st,
                           TRUE)
               [] stage = "district_selected" ->
                    Result(clear_comparison_mode(s1).st, TRUE)
               [] stage = "comparison" ->
                    IF ~TruthyStr(s1.selected_district)
                    THEN Result([s1 EXCEPT !.view_stage = "district_selected"],
                                TRUE)
                    ELSE Result(s1, TRUE)

select_district(s, district_name) ==
    IF district_name = None
    THEN Result(s, FALSE)
    ELSE IF district_name.v = "" \/ ~district_name.isstr
    THEN Result(s, FALSE)
    ELSE Result([s EXCEPT !.selected_district = Some(district_name.v)], TRUE)

clear_selected_district(s) ==
    Result([s EXCEPT !.selected_district = None], None)

\* select_quintile without the toggle of lines 202-204.
select_quintile_no_toggle(s, quintile) ==
    IF quintile # None
       /\ (~quintile.isint \/ quintile.v < 1 \/ quintile.v > NumQuintiles)
    THEN Result(s, FALSE)
    ELSE LET q == IF quintile = None THEN None ELSE Some(quintile.v)
         IN  Result([s EXCEPT !.selected_quintile = q], TRUE)

select_quintile(s, quintile) ==
    IF quintile # None
       /\ (~quintile.isint \/ quintile.v < 1 \/ quintile.v > NumQuintiles)
    THEN Result(s, FALSE)
    ELSE LET q == IF quintile = None THEN None ELSE Some(quintile.v)
         IN  IF s.selected_quintile = q
             THEN Result([s EXCEPT !.selected_quintile = None], TRUE)
             ELSE Result([s EXCEPT !.selected_quintile = q], TRUE)

\* add_message inserting at the head of the history.
add_message_prepend(s, role, content) ==
    IF role = "" \/ content = ""
    THEN Result(s, FALSE)
    ELSE IF "messages" \notin DOMAIN s
    THEN Result(s, FALSE)
    ELSE Result([s EXCEPT !.messages =
                    <<[role |-> role, content |-> content]>> \o @],
                TRUE)

add_message(s, role, content) ==
    IF role = "" \/ content = ""
    THEN Result(s, FALSE)
    ELSE IF "messages" \notin DOMAIN s
    THEN Result(s, FALSE)
    ELSE Result([s EXCEPT !.messages =
                    Append(@, [role |-> role, content |-> content])],
                TRUE)

\* set_comparison_mode assigning the mode before validating it.
set_comparison_mode_assign_first(s, mode) ==
    LET old_mode == s.comparison_mode
        s1 == [s EXCEPT !.comparison_mode = mode]
    IN  IF ~validate_comparison_mode(mode)
        THEN Result(s1, FALSE)
        ELSE IF old_mode # mode
        THEN Result([s1 EXCEPT !.comparison_districts = <<>>], TRUE)
        ELSE Result(s1, TRUE)

\* set_comparison_mode without the clearing of lines 245-246.
set_comparison_mode_keep_districts(s, mode) ==
    IF ~validate_comparison_mode(mode)
    THEN Result(s, FALSE)
    ELSE Result([s EXCEPT !.comparison_mode = mode], TRUE)

set_comparison_mode(s, mode) ==
    IF ~validate_comparison_mode(mode)
    THEN Result(s, FALSE)
    ELSE LET old_mode == s.comparison_mode
             s1 == [s EXCEPT !.comparison_mode = mode]
         IN  IF old_mode # mode
             THEN Result([s1 EXCEPT !.comparison_districts = <<>>], TRUE)
             ELSE Result(s1, TRUE)

set_comparison_districts(s, districts) ==
    IF ~districts.islist
    THEN Result(s, FALSE)
    ELSE Result([s EXCEPT !.comparison_districts = districts.v], TRUE)

\* repair_session_state redirecting every "comparison" view, with or without
\* a selected district.
repair_session_state_always_redirect(s) ==
    LET s1 == IF ~validate_view_stage(s.view_stage)
              THEN [s EXCEPT !.view_stage = "overview"]
              ELSE s
        s2 == IF ~validate_comparison_mode(s1.comparison_mode)
              THEN [s1 EXCEPT !.comparison_mode = None,
                              !.comparison_districts = <<>>]
              ELSE s1
        s3 == IF s2.view_stage = "comparison"
              THEN [s2 EXCEPT !.view_stage = "district_selected"]
              ELSE s2
    IN  Result(s3, None)

\* repair_session_state without the comparison_mode check of lines 313-316.
repair_session_state_keep_mode(s) ==
    LET s1 == IF ~validate_view_stage(s.view_stage)
              THEN [s EXCEPT !.view_stage = "overview"]
              ELSE s
        s3 == IF s1.view_stage = "comparison" /\ ~TruthyStr(s1.selected_district)
              THEN [s1 EXCEPT !.view_stage = "district_selected"]
              ELSE s1
    IN  Result(s3, None)

repair_session_state(s) ==
    LET s1 == IF ~validate_view_stage(s.view_stage)
              THEN [s EXCEPT !.view_stage = "overview"]
              ELSE s
        s2 == IF ~validate_comparison_mode(s1.comparison_mode)
              THEN [s1 EXCEPT !.comparison_mode = None,
                              !.comparison_districts = <<>>]
              ELSE s1
        s3 == IF s2.view_stage = "comparison" /\ ~TruthyStr(s2.selected_district)
              THEN [s2 EXCEPT !.view_stage = "district_selected"]
              ELSE s2
    IN  Result(s3, None)

(***************************************************************************)
(* Map cache: entries of the session dictionary under map cache keys.      *)
(***************************************************************************)
MAP_HTML_SEOUL_TOTAL == "__MAP_HTML_SEOUL_TOTAL_V3__"

MAP_HTML_GU_RANKING_PREFIX == "__MAP_HTML_GU_RANKING_Q"

MAP_HTML_DISTRICT_ZOOM_PREFIX == "__MAP_HTML_DISTRICT_ZOOM_"

get_map_from_cache(s, key) == IF key \in DOMAIN s THEN s[key] ELSE None

\* set_map_to_cache keeping a single map: storing an entry drops the map
\* entries stored under other keys.
set_map_to_cache_single_slot(s, map_html, key) ==
    [k \in (DOMAIN s \cap DOMAIN init_session_state) \cup {key} |->
        IF k = key THEN map_html ELSE s[k]]

\* set_map_to_cache written with dict.setdefault: an entry already stored
\* under the key is kept.
set_map_to_cache_setdefault(s, map_html, key) ==
    IF key \in DOMAIN s THEN s
    ELSE [k \in DOMAIN s \cup {key} |-> IF k = key THEN map_html ELSE s[k]]

set_map_to_cache(s, map_html, key) ==
    [k \in DOMAIN s \cup {key} |-> IF k = key THEN map_html ELSE s[k]]

\* clear_map_cache that also sends the view back to the overview.
clear_map_cache_resets_view(s, key) ==
    LET s1 == IF key \in DOMAIN s THEN [k \in DOMAIN s \ {key} |-> s[k]] ELSE s
    IN  IF "view_stage" \in DOMAIN s1
        THEN [s1 EXCEPT !.view_stage = "overview"]
        ELSE s1

clear_map_cache(s, key) ==
    IF key \in DOMAIN s THEN [k \in DOMAIN s \ {key} |-> s[k]] ELSE s

\* is_map_cached that never finds an entry.
is_map_cached_never(s, key) == FALSE

is_map_cached(s, key) == key \in DOMAIN s

\* The keys of the dictionary that init_session_state does not create.
MapKeys(s) == DOMAIN s \ DOMAIN init_session_state

(***************************************************************************)
(* Python's sorted() and '_'.join() on lists of district names, and the    *)
(* formatting of an optional value in an f-string.                         *)
(***************************************************************************)
\* The name of the i-th district of a table with one record per district.
GuName(i) == "D" \o (IF i < 10 THEN "0" ELSE "") \o ToString(i)

\* The district names in code-point order.
DistrictOrder ==
    [i \in 1..MaxGu |-> GuName(i)] \o <<"Gangnam", "Mapo", "Seocho">>

OrderIndex(d) == CHOOSE i \in 1..Len(DistrictOrder) : DistrictOrder[i] = d

RECURSIVE Insert(_, _)
Insert(q, x) ==
    IF q = <<>> THEN <<x>>
    ELSE IF (OrderIndex(x) <= OrderIndex((Head(q)))) THEN <<x>> \o q
    ELSE <<Head(q)>> \o Insert(Tail(q), x)

RECURSIVE sorted(_)
sorted(q) == IF q = <<>> THEN <<>> ELSE Insert(sorted(Tail(q)), Head(q))

RECURSIVE join(_, _)
join(sep, q) ==
    IF q = <<>> THEN ""
    ELSE IF Len(q) = 1 THEN q[1]
    ELSE q[1] \o sep \o join(sep, Tail(q))

FormatQuintile(o) == IF o = None THEN "None" ELSE ToString(Val(o))

FormatDistrict(o) == IF o = None THEN "None" ELSE Val(o)

(***************************************************************************)
(* The rendered maps.  A map's HTML is determined by what the style       *)
(* function makes of the arguments: the selected district is drawn first,  *)
(* then the compared districts (membership in the list only) in the colour *)
(* of the comparison mode, then the districts of the selected quintile.    *)
(***************************************************************************)

\* The districts drawn as compared, and their colour.
ComparedDistricts(selected_district, adjacent_districts) ==
    IF adjacent_districts = None THEN {}
    ELSE {Val(adjacent_districts)[i] : i \in 1..Len(Val(adjacent_districts))}
             \ (IF TruthyStr(selected_district)
                THEN {Val(selected_district)} ELSE {})

ComparedColour(compared, comparison_mode) ==
    IF compared = {} THEN "none"
    ELSE IF comparison_mode = Some("similar_price") THEN "#9932CC"
    ELSE "#FF8C00"

\* The one district name of the model that the boundary file has no
\* feature for: no feature of a map is drawn in its style.
OutsideSeoul == {"Jeju"}

create_gu_ranking_map(selected_quintile, selected_district, adjacent_districts, comparison_mode) ==
    LET compared == ComparedDistricts(selected_district, adjacent_districts)
    IN  [kind |-> "gu_ranking", selected_quintile |-> selected_quintile,
         selected_district |-> IF TruthyStr(selected_district)
                                  /\ Val(selected_district) \notin OutsideSeoul
                               THEN selected_district ELSE None,
         compared |-> compared,
         colour |-> ComparedColour(compared, comparison_mode)]

create_district_zoom_map(selected_district, adjacent_districts, comparison_mode) ==
    LET compared == ComparedDistricts(selected_district, adjacent_districts)
    IN  [kind |-> "district_zoom", selected_district |-> selected_district,
         compared |-> compared,
         colour |-> ComparedColour(compared, comparison_mode)]

\* adjacent_cache_suffix joining the list in the order it is stored in.
adjacent_cache_suffix_unsorted(s) ==
    IF TruthyList(s.comparison_districts)
    THEN "_adj_" \o join("_", s.comparison_districts)
    ELSE ""

adjacent_cache_suffix(s) ==
    IF TruthyList(s.comparison_districts)
    THEN "_adj_" \o join("_", sorted(s.comparison_districts))
    ELSE ""

gu_ranking_cache_key(s) ==
    MAP_HTML_GU_RANKING_PREFIX \o FormatQuintile(s.selected_quintile)
        \o "__" \o adjacent_cache_suffix(s)

district_zoom_cache_key(s) ==
    MAP_HTML_DISTRICT_ZOOM_PREFIX \o FormatDistrict(s.selected_district)
        \o "__" \o adjacent_cache_suffix(s)

(***************************************************************************)
(* display_map.  display_fails: showing the map raises inside the try      *)
(* block; regenerate: the regenerate button of the error branch reads as   *)
(* pressed; clicked: the quintile button pressed (0 for none); show_all:   *)
(* the "all quintiles" button reads as pressed.  Besides the new session   *)
(* dictionary and the returned map_action, a run yields the keys it        *)
(* rendered a map for and the keys it called clear_map_cache with.         *)
(***************************************************************************)
\* The map_action display_map returns: None, the tuple
\* ("quintile_selected", data), or the dictionary
\* {"type": "refresh_map", "reason": reason}.
NoMapAction == [shape |-> "none", type |-> "", data |-> None, reason |-> ""]

QuintileAction(data) ==
    [shape |-> "tuple", type |-> "quintile_selected", data |-> data,
     reason |-> ""]

RefreshAction(reason) ==
    [shape |-> "dict", type |-> "refresh_map", data |-> None,
     reason |-> reason]

display_map(s, display_fails, regenerate, clicked, show_all) ==
    LET adjacent_districts ==
            IF TruthyList(s.comparison_districts)
            THEN Some(s.comparison_districts) ELSE None
        \* 1. the Seoul total map
        render_total == ~is_map_cached(s, MAP_HTML_SEOUL_TOTAL)
        s1 == IF render_total
              THEN set_map_to_cache(s, ([kind |-> "seoul_total"]),
                                    MAP_HTML_SEOUL_TOTAL)
              ELSE s
        \* 2. the ranking map
        map_cache_key == gu_ranking_cache_key(s)
        render_ranking == ~is_map_cached(s1, map_cache_key)
        s2 == IF render_ranking
              THEN set_map_to_cache(s1,
                       create_gu_ranking_map(s.selected_quintile,
                           s.selected_district, adjacent_districts,
                           s.comparison_mode),
                       map_cache_key)
              ELSE s1
        \* 3. the district zoom map
        district_cache_key == district_zoom_cache_key(s)
        render_zoom ==
            TruthyStr(s.selected_district)
                /\ ~is_map_cached(s2, district_cache_key)
        s3 == IF render_zoom
              THEN set_map_to_cache(s2,
                       create_district_zoom_map(s.selected_district,
                           adjacent_districts, s.comparison_mode),
                       district_cache_key)
              ELSE s2
        \* 4. show the map of the current view
        shown_key ==
            IF TruthyStr(s.selected_district) THEN district_cache_key
            ELSE IF s.view_stage = "gu_ranking"
            THEN MAP_HTML_GU_RANKING_PREFIX
                     \o FormatQuintile(s.selected_quintile) \o "__"
            ELSE MAP_HTML_SEOUL_TOTAL
        quintile_action ==
            IF ~TruthyStr(s.selected_district) /\ s.view_stage = "gu_ranking"
            THEN IF show_all /\ s.selected_quintile # None
                 THEN QuintileAction(None)
                 ELSE IF clicked \in 1..NumQuintiles
                 THEN IF s.selected_quintile = Some(clicked)
                      THEN QuintileAction(None)
                      ELSE QuintileAction(Some(clicked))
                 ELSE NoMapAction
            ELSE NoMapAction
        regenerate_key ==
            IF TruthyStr(s.selected_district)
            THEN MAP_HTML_DISTRICT_ZOOM_PREFIX
                     \o FormatDistrict(s.selected_district) \o "__"
            ELSE IF s.view_stage = "gu_ranking"
            THEN MAP_HTML_GU_RANKING_PREFIX
                     \o FormatQuintile(s.selected_quintile) \o "__"
            ELSE MAP_HTML_SEOUL_TOTAL
        missing_reason ==
            IF TruthyStr(s.selected_district) THEN "district_zoom_cache_missing"
            ELSE IF s.view_stage = "gu_ranking" THEN "gu_ranking_cache_missing"
            ELSE "seoul_total_cache_missing"
        \* the keys a create_..._map call was made for
        rendered ==
            (IF render_total THEN {MAP_HTML_SEOUL_TOTAL} ELSE {})
                \cup (IF render_ranking THEN {map_cache_key} ELSE {})
                \cup (IF render_zoom THEN {district_cache_key} ELSE {})
        Run(st, ret, cleared) ==
            [st |-> st, ret |-> ret, rendered |-> rendered,
             cleared |-> cleared,
             shown |-> IF display_fails
                          \/ get_map_from_cache(s3, shown_key) = None
                       THEN None ELSE Some(shown_key)]
    IN  IF display_fails
        THEN IF regenerate
             THEN Run(clear_map_cache(s3, regenerate_key),
                      RefreshAction("user_requested_regenerate"),
                      {regenerate_key})
             ELSE Run(s3, quintile_action, {})
        ELSE IF get_map_from_cache(s3, shown_key) = None
        THEN Run(s3, RefreshAction(missing_reason), {})
        ELSE Run(s3, quintile_action, {})

(***************************************************************************)
(* rankings.py.  A data frame is the sequence of its rows.  The prices of  *)
(* the tables are chosen so that every average is a whole number.          *)
(***************************************************************************)
TopN == 25

QuintileSize == 5

RECURSIVE SumPrices(_)
SumPrices(rows) ==
    IF rows = <<>> THEN 0
    ELSE Head(rows).price_84m2_manwon + SumPrices(Tail(rows))

RECURSIVE Unique(_)
Unique(q) ==
    IF q = <<>> THEN <<>>
    ELSE LET rest == Unique(SubSeq(q, 1, Len(q) - 1))
             x == q[Len(q)]
         IN  IF \E i \in 1..Len(rest) : rest[i] = x THEN rest
             ELSE Append(rest, x)

\* DataFrame.iloc[start:end] and DataFrame.head(n).
iloc(q, start, end) ==
    SubSeq(q, start + 1, IF end < Len(q) THEN end ELSE Len(q))

head(q, n) == iloc(q, 0, n)

\* Series.sort_values(ascending=False) with the default kind, quicksort,
\* which is not a stable sort: every arrangement in non-increasing order
\* of the values is a possible result.
RECURSIVE sort_values_descending(_)
sort_values_descending(S) ==
    IF S = {} THEN {<<>>}
    ELSE LET top == {x \in S : \A y \in S :
                         y.price_84m2_manwon <= x.price_84m2_manwon}
         IN  UNION {{<<x>> \o r : r \in sort_values_descending(S \ {x})} :
                      x \in top}

\* calculate_gugun_ranking without the month filter of line 32.
calculate_gugun_ranking_all_months(df, deal_month) ==
    LET monthly_data == df
        keys == sorted(Unique([i \in 1..Len(monthly_data) |->
                                  monthly_data[i].gugun]))
        mean(g) ==
            LET rows == SelectSeq(monthly_data, LAMBDA row : row.gugun = g)
            IN  SumPrices(rows) \div Len(rows)
        grouped == {[gugun |-> keys[i], price_84m2_manwon |-> mean(keys[i])] :
                       i \in 1..Len(keys)}
        ranked(o) ==
            [i \in 1..Len(o) |->
                [gugun |-> o[i].gugun,
                 price_84m2_manwon |-> o[i].price_84m2_manwon,
                 rank |-> i]]
    IN  {head(ranked(o), TopN) : o \in sort_values_descending(grouped)}

\* The rankings calculate_gugun_ranking can return.  groupby sorts the
\* group keys; the percentile columns added to each row depend on the
\* percentile files only and are left out.
calculate_gugun_ranking(df, deal_month) ==
    LET monthly_data == SelectSeq(df, LAMBDA row : row.deal_ym = deal_month)
        keys == sorted(Unique([i \in 1..Len(monthly_data) |->
                                  monthly_data[i].gugun]))
        mean(g) ==
            LET rows == SelectSeq(monthly_data, LAMBDA row : row.gugun = g)
            IN  SumPrices(rows) \div Len(rows)
        grouped == {[gugun |-> keys[i], price_84m2_manwon |-> mean(keys[i])] :
                       i \in 1..Len(keys)}
        ranked(o) ==
            [i \in 1..Len(o) |->
                [gugun |-> o[i].gugun,
                 price_84m2_manwon |-> o[i].price_84m2_manwon,
                 rank |-> i]]
    IN  {head(ranked(o), TopN) : o \in sort_values_descending(grouped)}

RECURSIVE MinPrice(_)
MinPrice(rows) ==
    IF Len(rows) = 1 THEN rows[1].price_84m2_manwon
    ELSE LET m == MinPrice(Tail(rows))
         IN  IF rows[1].price_84m2_manwon < m
             THEN rows[1].price_84m2_manwon ELSE m

RECURSIVE MaxPrice(_)
MaxPrice(rows) ==
    IF Len(rows) = 1 THEN rows[1].price_84m2_manwon
    ELSE LET m == MaxPrice(Tail(rows))
         IN  IF rows[1].price_84m2_manwon > m
             THEN rows[1].price_84m2_manwon ELSE m

\* calculate_price_quintiles taking the end of a slice as inclusive.
calculate_price_quintiles_inclusive_end(ranking_df) ==
    LET slice(i) == iloc(ranking_df, i * QuintileSize,
                         i * QuintileSize + QuintileSize + 1)
    IN  IF \E i \in 0..(NumQuintiles - 1) : slice(i) = <<>>
        THEN [raised |-> TRUE, quintiles |-> <<>>]
        ELSE [raised |-> FALSE,
              quintiles |->
                  [k \in 1..NumQuintiles |->
                      [gus |-> [j \in 1..Len(slice(k - 1)) |->
                                   slice(k - 1)[j].gugun],
                       count |-> Len(slice(k - 1)),
                       price_min |-> MinPrice(slice(k - 1)),
                       price_max |-> MaxPrice(slice(k - 1))]]]

\* min() of an empty slice raises ValueError and the function returns
\* nothing.
calculate_price_quintiles(ranking_df) ==
    LET slice(i) == iloc(ranking_df, i * QuintileSize,
                         i * QuintileSize + QuintileSize)
    IN  IF \E i \in 0..(NumQuintiles - 1) : slice(i) = <<>>
        THEN [raised |-> TRUE, quintiles |-> <<>>]
        ELSE [raised |-> FALSE,
              quintiles |->
                  [k \in 1..NumQuintiles |->
                      [gus |-> [j \in 1..Len(slice(k - 1)) |->
                                   slice(k - 1)[j].gugun],
                       count |-> Len(slice(k - 1)),
                       price_min |-> MinPrice(slice(k - 1)),
                       price_max |-> MaxPrice(slice(k - 1))]]]

(***************************************************************************)
(* The double-precision arithmetic of the price window.  A non-negative    *)
(* double is m * 2^e, m a whole number written in limbs of LimbBits bits,  *)
(* the lowest limb first; every operation rounds its exact result to       *)
(* 53 bits (a double's mantissa), to nearest, ties to even.                *)
(***************************************************************************)
LimbBits == 15

Base == 32768

RECURSIVE Limbs(_)
Limbs(n) == IF n = 0 THEN <<>> ELSE <<n % Base>> \o Limbs(n \div Base)

RECURSIVE Trim(_)
Trim(b) ==
    IF b = <<>> THEN <<>>
    ELSE IF b[Len(b)] = 0 THEN Trim(SubSeq(b, 1, Len(b) - 1))
    ELSE b

Limb(b, j) == IF j >= 1 /\ j <= Len(b) THEN b[j] ELSE 0

Shl(b, k) ==
    LET w == k \div LimbBits
        s == k % LimbBits
    IN  Trim([i \in 1..(Len(b) + w + 1) |->
                 (Limb(b, i - w) % (2 ^ (LimbBits - s))) * (2 ^ s)
                 + Limb(b, i - w - 1) \div (2 ^ (LimbBits - s))])

Shr(b, k) ==
    LET w == k \div LimbBits
        s == k % LimbBits
    IN  Trim([i \in 1..(Len(b) - w) |->
                 Limb(b, i + w) \div (2 ^ s)
                 + (Limb(b, i + w + 1) % (2 ^ s)) * (2 ^ (LimbBits - s))])

BitAt(b, i) == (Limb(b, i \div LimbBits + 1) \div (2 ^ (i % LimbBits))) % 2

BitLen(b) ==
    IF b = <<>> THEN 0
    ELSE LimbBits * (Len(b) - 1)
         + (CHOOSE k \in 1..LimbBits :
               2 ^ (k - 1) <= b[Len(b)] /\ b[Len(b)] < 2 ^ k)

RECURSIVE AddLimbs(_, _, _)
AddLimbs(a, b, carry) ==
    IF a = <<>> /\ b = <<>> THEN (IF carry = 1 THEN <<1>> ELSE <<>>)
    ELSE LET s == Limb(a, 1) + Limb(b, 1) + carry
         IN  <<s % Base>> \o AddLimbs(IF a = <<>> THEN <<>> ELSE Tail(a),
                                     IF b = <<>> THEN <<>> ELSE Tail(b),
                                     s \div Base)

\* a - b for a >= b.
RECURSIVE SubLimbs(_, _, _)
SubLimbs(a, b, borrow) ==
    IF a = <<>> THEN <<>>
    ELSE LET d == a[1] - Limb(b, 1) - borrow
         IN  <<(d + Base) % Base>>
             \o SubLimbs(Tail(a), IF b = <<>> THEN <<>> ELSE Tail(b),
                         IF d < 0 THEN 1 ELSE 0)

RECURSIVE ScaleLimbs(_, _, _)
ScaleLimbs(a, k, carry) ==
    IF a = <<>> THEN Limbs(carry)
    ELSE <<(a[1] * k + carry) % Base>>
         \o ScaleLimbs(Tail(a), k, (a[1] * k + carry) \div Base)

RECURSIVE MulLimbs(_, _)
MulLimbs(a, b) ==
    IF b = <<>> THEN <<>>
    ELSE AddLimbs(ScaleLimbs(a, b[1], 0), <<0>> \o MulLimbs(a, Tail(b)), 0)

\* Quotient and remainder by a whole number below 2^16.
RECURSIVE DivSmall(_, _)
DivSmall(b, d) ==
    IF b = <<>> THEN [q |-> <<>>, r |-> 0]
    ELSE LET hi == DivSmall(Tail(b), d)
         IN  [q |-> <<(hi.r * Base + b[1]) \div d>> \o hi.q,
              r |-> (hi.r * Base + b[1]) % d]

\* The double nearest to m * 2^e (plus a non-zero rest below the lowest
\* bit of m when sticky).
Round53(m, e, sticky) ==
    LET drop == BitLen(Trim(m)) - 53
    IN  IF drop <= 0 THEN [m |-> Trim(m), e |-> e]
        ELSE LET kept == Shr(m, drop)
                 low == sticky \/ \E i \in 0..(drop - 2) : BitAt(m, i) = 1
                 up == BitAt(m, drop - 1) = 1 /\ (low \/ BitAt(kept, 0) = 1)
             IN  [m |-> IF up THEN AddLimbs(kept, <<1>>, 0) ELSE kept,
                  e |-> e + drop]

FromInt(n) == [m |-> Limbs(n), e |-> 0]

MinExp(a, b) == IF a.e < b.e THEN a.e ELSE b.e

Aligned(a, e0) == Shl(a.m, a.e - e0)

\* x / y for a whole x and a whole y below 2^16.
fl_div(x, y) ==
    LET d == DivSmall(Shl(Limbs(x), 64), y)
    IN  Round53(d.q, 0 - 64, d.r # 0)

fl_add(a, b) ==
    Round53(AddLimbs(Aligned(a, MinExp(a, b)), Aligned(b, MinExp(a, b)), 0),
            MinExp(a, b), FALSE)

\* a - b for a >= b.
fl_sub(a, b) ==
    Round53(SubLimbs(Aligned(a, MinExp(a, b)), Aligned(b, MinExp(a, b)), 0),
            MinExp(a, b), FALSE)

fl_mul(a, b) == Round53(MulLimbs(a.m, b.m), a.e + b.e, FALSE)

RECURSIVE LeqLimbs(_, _)
LeqLimbs(a, b) ==
    IF Len(a) # Len(b) THEN Len(a) < Len(b)
    ELSE IF a = <<>> THEN TRUE
    ELSE IF a[Len(a)] # b[Len(b)] THEN a[Len(a)] < b[Len(b)]
    ELSE LeqLimbs(SubSeq(a, 1, Len(a) - 1), SubSeq(b, 1, Len(b) - 1))

fl_leq(a, b) ==
    LeqLimbs(Trim(Aligned(a, MinExp(a, b))), Trim(Aligned(b, MinExp(a, b))))

Hundred == 100

AbsDiff(p, q) == IF p >= q THEN p - q ELSE q - p

\* The arrangements sort_values("similarity_score", ascending=False) can
\* return.  For whole prices below 2^31 the rounded score
\* 100 - |(p - target_price) / target_price * 100| of one row is above that
\* of another exactly when its |p - target_price| is below the other's, so
\* the rows are compared by that distance; rows of equal score come in any
\* order.
RECURSIVE sort_values_similarity(_, _)
sort_values_similarity(S, target_price) ==
    IF S = {} THEN {<<>>}
    ELSE LET top == {x \in S : \A y \in S :
                         AbsDiff(x.price_84m2_manwon, target_price)
                         <= AbsDiff(y.price_84m2_manwon, target_price)}
         IN  UNION {{<<x>> \o r :
                       r \in sort_values_similarity(S \ {x}, target_price)} :
                      x \in top}

\* The summary texts, each an f-string with fixed words around its values.

SummaryFailed == "analysis failed: "

\* find_similar_price_districts with an empty text in its error results.
SimilarError_silent(target_district, found) ==
    [target_price |-> None, similar_districts |-> <<>>, error |-> TRUE,
     summary |-> ""]

\* The result for a target that is not in the ranking (found = FALSE) and
\* the result of the except branch (found = TRUE).
SimilarError(target_district, found) ==
    [target_price |-> None, similar_districts |-> <<>>, error |-> TRUE,
     summary |-> IF found THEN SummaryFailed
                 ELSE (target_district \o ": no price information")]

\* The results find_similar_price_districts can return: the target's price,
\* the list of similar districts and whether the "error" entry is there.
find_similar_price_districts(target_district, ranking_df, apt_price_df, tolerance_pct, max_results) ==
    LET target_row == SelectSeq(ranking_df,
                                LAMBDA row : row.gugun = target_district)
    IN  IF target_row = <<>> THEN {SimilarError(target_district, FALSE)}
        ELSE
        LET target_price == target_row[1].price_84m2_manwon
            price_min == fl_mul(FromInt(target_price),
                                fl_sub(FromInt(1),
                                       fl_div(tolerance_pct, Hundred)))
            price_max == fl_mul(FromInt(target_price),
                                fl_add(FromInt(1),
                                       fl_div(tolerance_pct, Hundred)))
            similar_mask(row) ==
                /\ fl_leq(price_min, FromInt(row.price_84m2_manwon))
                /\ fl_leq(FromInt(row.price_84m2_manwon), price_max)
                /\ row.gugun # target_district
            similar == {ranking_df[i] : i \in {k \in 1..Len(ranking_df) :
                                                similar_mask(ranking_df[k])}}
            additional_info(o) ==
                SelectSeq(<<target_district>> \o [i \in 1..Len(o) |-> o[i].gugun],
                          LAMBDA district :
                              \E k \in 1..Len(apt_price_df) :
                                  apt_price_df[k].gugun = district)
            result(o) ==
                IF additional_info(o) = <<>>
                THEN SimilarError(target_district, TRUE)
                ELSE [target_price |-> Some(target_price),
                      similar_districts |-> [i \in 1..Len(o) |-> o[i].gugun],
                      error |-> FALSE,
                      summary |-> (target_district \o ": " \o ToString((Len(o))) \o " similar districts")]
        IN  IF similar = {}
            THEN {[target_price |-> Some(target_price),
                   similar_districts |-> <<>>, error |-> FALSE,
                   summary |-> (target_district \o ": no district in the price range")]}
            ELSE {result(IF Len(o) > max_results THEN head(o, max_results)
                         ELSE o) :
                     o \in sort_values_similarity(similar, target_price)}

(***************************************************************************)
(* The record of the call that produced the current state: the operation, *)
(* its argument, the value it returned, and pre, what the call found:      *)
(* the quintile selected before a select_quintile call, whether a district *)
(* was selected before an update_view_stage call, the comparison mode and  *)
(* whether comparison districts were present before a set_comparison_mode  *)
(* call, whether the key was cached before a clear_map_cache call, the     *)
(* keys rendered and cleared by a display_map run.  rendered_keys are the  *)
(* keys a map has been rendered for since the session began.               *)
(***************************************************************************)
Call(op, arg, r, pre) ==
    [op |-> op, arg |-> arg, ret |-> r, pre |-> pre,
     rendered_keys |-> last.rendered_keys]

Init ==
    /\ query_params = None
    /\ session_state = init_session_state
    /\ last = [op |-> "init_session_state", arg |-> None, ret |-> None,
               pre |-> None, rendered_keys |-> {}]

UpdateViewStage(stages) ==
    \E stage \in stages :
        LET r == update_view_stage(session_state, stage)
        IN  /\ session_state' = r.st
            /\ UNCHANGED query_params
            /\ last' = Call("update_view_stage", stage, r.ret,
                            [had_district |->
                                 TruthyStr(session_state.selected_district)])

SelectDistrict(names) ==
    \E district_name \in names :
        LET r == select_district(session_state, district_name)
        IN  /\ session_state' = r.st
            /\ UNCHANGED query_params
            /\ last' = Call("select_district", district_name, r.ret, None)

ClearSelectedDistrict ==
    LET r == clear_selected_district(session_state)
    IN  /\ session_state' = r.st
        /\ UNCHANGED query_params
        /\ last' = Call("clear_selected_district", None, r.ret, None)

SelectQuintile(quintiles) ==
    \E quintile \in quintiles :
        LET r == select_quintile(session_state, quintile)
        IN  /\ session_state' = r.st
            /\ UNCHANGED query_params
            /\ last' = Call("select_quintile", quintile, r.ret,
                            session_state.selected_quintile)

AddMessage(roles, contents) ==
    \E role \in roles, content \in contents :
        LET r == add_message(session_state, role, content)
        IN  /\ Len(r.st.messages) <= MaxMsgs
            /\ session_state' = r.st
            /\ UNCHANGED query_params
            /\ last' = Call("add_message", <<role, content>>, r.ret, None)

SetComparisonMode(modes) ==
    \E mode \in modes :
        LET r == set_comparison_mode(session_state, mode)
        IN  /\ session_state' = r.st
            /\ UNCHANGED query_params
            /\ last' = Call("set_comparison_mode", mode, r.ret,
                            [old_mode |-> session_state.comparison_mode,
                             had_districts |->
                                 TruthyList(session_state.comparison_districts)])

ClearComparisonMode ==
    LET r == clear_comparison_mode(session_state)
    IN  /\ session_state' = r.st
        /\ UNCHANGED query_params
        /\ last' = Call("clear_comparison_mode", None, r.ret, None)

SetComparisonDistricts(lists) ==
    \E districts \in lists :
        LET r == set_comparison_districts(session_state, districts)
        IN  /\ session_state' = r.st
            /\ UNCHANGED query_params
            /\ last' = Call("set_comparison_districts", districts, r.ret, None)

ValidateSessionState ==
    /\ session_state' = session_state
    /\ UNCHANGED query_params
    /\ last' = Call("validate_session_state", None,
                    validate_session_state(session_state), None)

RepairSessionState ==
    LET r == repair_session_state(session_state)
    IN  /\ session_state' = r.st
        /\ UNCHANGED query_params
        /\ last' = Call("repair_session_state", None, r.ret,
                        [valid |-> validate_session_state(session_state)])

\* A button that the run does not draw cannot read as pressed: the
\* regenerate button exists in the error branch only, the quintile buttons
\* in the ranking view only, the "all quintiles" button only while a
\* quintile is selected.
DisplayMap ==
    \E display_fails \in BOOLEAN :
    \E regenerate \in (IF display_fails THEN BOOLEAN ELSE {FALSE}) :
    \E clicked \in (IF ~TruthyStr(session_state.selected_district)
                       /\ session_state.view_stage = "gu_ranking"
                    THEN 0..1 ELSE {0}) :
    \E show_all \in (IF /\ ~TruthyStr(session_state.selected_district)
                        /\ session_state.view_stage = "gu_ranking"
                        /\ session_state.selected_quintile # None
                     THEN BOOLEAN ELSE {FALSE}) :
        LET r == display_map(session_state, display_fails, regenerate,
                             clicked, show_all)
        IN  /\ Cardinality(MapKeys(r.st)) <= MaxCached
            /\ session_state' = r.st
            /\ UNCHANGED query_params
            /\ last' = [Call("display_map", None, r.ret,
                              [rendered |-> r.rendered,
                               cleared |-> r.cleared,
                               shown |-> r.shown])
                           EXCEPT !.rendered_keys = @ \cup r.rendered]

GetMapFromCache(keys) ==
    \E key \in keys :
        /\ session_state' = session_state
        /\ UNCHANGED query_params
        /\ last' = Call("get_map_from_cache", key,
                        get_map_from_cache(session_state, key), None)

SetMapToCache(htmls, keys) ==
    \E map_html \in htmls, key \in keys :
        /\ session_state' = set_map_to_cache(session_state, map_html, key)
        /\ UNCHANGED query_params
        /\ last' = Call("set_map_to_cache", <<map_html, key>>, None, None)

ClearMapCache(keys) ==
    \E key \in keys :
        /\ session_state' = clear_map_cache(session_state, key)
        /\ UNCHANGED query_params
        /\ last' = Call("clear_map_cache", key, None,
                        is_map_cached(session_state, key))

IsMapCached(keys) ==
    \E key \in keys :
        /\ session_state' = session_state
        /\ UNCHANGED query_params
        /\ last' = Call("is_map_cached", key,
                        is_map_cached(session_state, key), None)

\* The two keys display_map builds for the session, and the two it builds
\* for the same session with another list of comparison districts.
CacheKeys(lists) ==
    \E other \in lists :
        LET s2 == [session_state EXCEPT !.comparison_districts = other]
        IN  /\ session_state' = session_state
            /\ UNCHANGED query_params
            /\ last' = Call("cache_keys", other,
                            [ranking |-> gu_ranking_cache_key(session_state),
                             zoom |-> district_zoom_cache_key(session_state),
                             other_ranking |-> gu_ranking_cache_key(s2),
                             other_zoom |-> district_zoom_cache_key(s2)],
                            None)

\* load_all_data: the ranking is computed from the loaded table, the
\* quintiles from the ranking.
CalculateGugunRanking(months) ==
    /\ last.op = "load_apt_price_data"
    /\ \E deal_month \in months :
       \E ranking \in calculate_gugun_ranking(last.ret, deal_month) :
          last' = Call("calculate_gugun_ranking",
                       [df |-> last.ret, deal_month |-> deal_month],
                       ranking, None)
    /\ session_state' = session_state
    /\ UNCHANGED query_params

CalculatePriceQuintiles ==
    /\ last.op = "calculate_gugun_ranking"
    /\ last' = Call("calculate_price_quintiles", last.ret,
                    calculate_price_quintiles(last.ret), None)
    /\ session_state' = session_state
    /\ UNCHANGED query_params

\* The similar-price lookup on the ranking load_all_data produced, with the
\* loaded table or with a table that has no row.
FindSimilarPriceDistricts(targets, tolerances, limits) ==
    /\ last.op = "calculate_gugun_ranking"
    /\ \E target_district \in targets, tolerance_pct \in tolerances, max_results \in limits :
       \E apt_price_df \in {last.arg.df, <<>>} :
       \E r \in find_similar_price_districts(target_district, last.ret, apt_price_df, tolerance_pct, max_results) :
          last' = Call("find_similar_price_districts",
                       [target_district |-> target_district,
                        ranking_df |-> last.ret,
                        apt_price_df |-> apt_price_df,
                        tolerance_pct |-> tolerance_pct,
                        max_results |-> max_results],
                       r, None)
    /\ session_state' = session_state
    /\ UNCHANGED query_params

(***************************************************************************)
(* The state store driven by arbitrary calls.                              *)
(***************************************************************************)
Next ==
    \/ UpdateViewStage((VALID_VIEW_STAGES \cup {"ranking"}))
    \/ SelectDistrict(({[isstr |-> TRUE, v |-> d] : d \in Districts \cup {""}} \cup {[isstr |-> FALSE, v |-> "Gangnam"]} \cup {None}))
    \/ ClearSelectedDistrict
    \/ SelectQuintile(({None} \cup {[isint |-> TRUE, v |-> n] : n \in 0..(NumQuintiles + 1)} \cup {[isint |-> FALSE, v |-> 3]}))
    \/ AddMessage((Roles \cup {""}), ContentInputs)
    \/ SetComparisonMode((VALID_COMPARISON_MODES \cup {Some("nearby")}))
    \/ ClearComparisonMode
    \/ SetComparisonDistricts(({[islist |-> TRUE, v |-> q] : q \in DistrictLists} \cup {[islist |-> FALSE, v |-> <<>>]}))
    \/ ValidateSessionState
    \/ RepairSessionState

Spec == Init /\ [][Next]_vars

(***************************************************************************)
(* The state store together with map rendering runs.  The district, the    *)
(* comparison districts, the view stage and the chat history vary; the     *)
(* quintile and the comparison mode are only ever set to None here.        *)
(***************************************************************************)
MapDistrictInputs == {[isstr |-> TRUE, v |-> "Gangnam"]}

MapListInputs == {[islist |-> TRUE, v |-> <<"Seocho">>]}

NextMap ==
    \/ UpdateViewStage(VALID_VIEW_STAGES)
    \/ SelectDistrict(MapDistrictInputs)
    \/ ClearSelectedDistrict
    \/ SelectQuintile({None})
    \/ AddMessage({"user", "assistant", ""}, ContentInputs)
    \/ SetComparisonMode({None})
    \/ ClearComparisonMode
    \/ SetComparisonDistricts(MapListInputs)
    \/ RepairSessionState
    \/ DisplayMap

SpecMap == Init /\ [][NextMap]_vars

(***************************************************************************)
(* validate_session_state and repair_session_state applied to an arbitrary *)
(* session dictionary in which every key of init_session_state exists.     *)
(***************************************************************************)

AnyQuintiles == {None} \cup {Some(n) : n \in 1..NumQuintiles}

InitAny ==
    /\ query_params = None
    /\ \E stage \in (VALID_VIEW_STAGES \cup {"ranking"}), district \in ({None, Some("")} \cup {Some(d) : d \in Districts}),
          quintile \in AnyQuintiles, mode \in (VALID_COMPARISON_MODES \cup {Some("nearby")}),
          districts \in DistrictLists :
          session_state =
              [init_session_state EXCEPT !.view_stage = stage,
                                         !.selected_district = district,
                                         !.selected_quintile = quintile,
                                         !.comparison_mode = mode,
                                         !.comparison_districts = districts]
    /\ last = [op |-> "init_session_state", arg |-> None, ret |-> None,
               pre |-> None, rendered_keys |-> {}]

NextValidate ==
    \/ ValidateSessionState
    \/ RepairSessionState

SpecValidate == InitAny /\ [][NextValidate]_vars

(***************************************************************************)
(* The four map cache functions called with arbitrary keys, among them     *)
(* the keys display_map builds and the name of a session field, while the  *)
(* selection changes.  The cached HTML is a string.  The view stage is     *)
(* chosen at the start and update_view_stage is not called.                *)
(***************************************************************************)
CacheKeyInputs ==
    {MAP_HTML_SEOUL_TOTAL,
     MAP_HTML_GU_RANKING_PREFIX \o "None__",
     MAP_HTML_DISTRICT_ZOOM_PREFIX \o "Gangnam__",
     "view_stage"}

InitCache ==
    /\ query_params = None
    /\ \E stage \in VALID_VIEW_STAGES :
          session_state = [init_session_state EXCEPT !.view_stage = stage]
    /\ last = [op |-> "init_session_state", arg |-> None, ret |-> None,
               pre |-> None, rendered_keys |-> {}]

NextCache ==
    \/ GetMapFromCache(CacheKeyInputs)
    \/ SetMapToCache({"<html>A</html>", "<html>B</html>"}, CacheKeyInputs)
    \/ ClearMapCache(CacheKeyInputs)
    \/ IsMapCached(CacheKeyInputs)
    \/ SelectDistrict(MapDistrictInputs)
    \/ SelectQuintile({[isint |-> TRUE, v |-> 3]})
    \/ SetComparisonDistricts(MapListInputs)

SpecCache == InitCache /\ [][NextCache]_vars

(***************************************************************************)
(* The cache keys display_map builds, for every base selection and every   *)
(* duplicate-free list of comparison districts.                            *)
(***************************************************************************)
KeyDistricts == {"Gangnam", "Mapo", "Seocho"}

KeyLists == {q \in SeqsUpTo(KeyDistricts, MaxCompLen) : NoDup(q)}

InitKeys ==
    /\ query_params = None
    /\ \E quintile \in AnyQuintiles, district \in KeyDistricts :
          session_state =
              [init_session_state EXCEPT !.selected_quintile = quintile,
                                         !.selected_district = Some(district)]
    /\ last = [op |-> "init_session_state", arg |-> None, ret |-> None,
               pre |-> None, rendered_keys |-> {}]

NextKeys ==
    \/ SetComparisonDistricts({[islist |-> TRUE, v |-> q] : q \in KeyLists})
    \/ CacheKeys(KeyLists)

SpecKeys == InitKeys /\ [][NextKeys]_vars

(***************************************************************************)
(* The ranking and the quintiles computed from a loaded price table.  The  *)
(* small tables hold up to MaxRows records of three districts and two      *)
(* months; the large ones hold one record of the latest month for each of  *)
(* up to MaxGu districts, and a record of the month before.               *)
(***************************************************************************)
Months == {202411, 202412}

LargeFrames ==
    {[i \in 1..d |-> [gugun |-> GuName(i), deal_ym |-> 202412,
                      price_84m2_manwon |-> (CASE profile = "falling" -> 50000 - 100 * i [] profile = "rising" -> 10000 + 100 * i [] profile = "tie_top" -> IF i <= 2 THEN 40000 ELSE 40000 - 100 * i [] profile = "tie_cut" -> IF i >= TopN THEN 20000 ELSE 30000 - 100 * i)]]
         \o <<[gugun |-> GuName(1), deal_ym |-> 202411,
               price_84m2_manwon |-> 99900]>> :
       d \in 1..MaxGu, profile \in {"falling", "rising", "tie_top", "tie_cut"}}

InitData ==
    /\ query_params = None
    /\ session_state = init_session_state
    /\ \E df \in (SeqsUpTo(([gugun : KeyDistricts, deal_ym : Months, price_84m2_manwon : {1200, 2400}]), MaxRows)) \cup LargeFrames :
          last = [op |-> "load_apt_price_data", arg |-> None, ret |-> df,
                  pre |-> None, rendered_keys |-> {}]

NextData ==
    \/ CalculateGugunRanking(Months)
    \/ CalculatePriceQuintiles

SpecData == InitData /\ [][NextData]_vars

(***************************************************************************)
(* The similar-price lookup on rankings whose prices sit on and next to    *)
(* the bounds of the window, and at equal distances from the target.       *)
(***************************************************************************)

SimilarFrames ==
    {[i \in 1..Len(prices) |-> [gugun |-> GuName(i), deal_ym |-> 202412,
                                price_84m2_manwon |-> prices[i]]] :
       prices \in {<<11501, 11500, 10000, 8500, 8499>>, <<115001, 115000, 100000, 85000, 84999>>, <<10400, 10300, 10200, 10100, 10000, 9900, 9800, 9700, 9600>>}}

InitSimilar ==
    /\ query_params = None
    /\ session_state = init_session_state
    /\ \E df \in SimilarFrames :
          last = [op |-> "load_apt_price_data", arg |-> None, ret |-> df,
                  pre |-> None, rendered_keys |-> {}]

NextSimilar ==
    \/ CalculateGugunRanking(Months)
    \/ FindSimilarPriceDistricts(({GuName(i) : i \in 1..9} \cup {"Jeju"}), {10, 15}, {2, 6})

SpecSimilar == InitSimilar /\ [][NextSimilar]_vars

(***************************************************************************)
(* The application (app/main.py).  Streamlit executes the script from top  *)
(* to bottom once per run; a run is started by the page load, by one       *)
(* widget event, or by st.rerun(), which ends the current run at once and  *)
(* starts one without an event.  The loaded table has one row for each of  *)
(* twenty-five districts in one month.                                     *)
(***************************************************************************)
latest_month == 202412

\* The price of the i-th district: D02 and D04 lie at the same distance
\* from D03, the other districts are far from these three.

apt_price_df ==
    [i \in 1..TopN |-> [gugun |-> GuName(i), deal_ym |-> latest_month,
                        price_84m2_manwon |-> (CASE i = 1 -> 30000 [] i = 2 -> 10500 [] i = 3 -> 10000 [] i = 4 -> 9500 [] OTHER -> 8400 - 100 * i)]]

\* load_all_data.  The prices differ, so there is one ranking.
gugun_ranking_df ==
    CHOOSE ranking \in calculate_gugun_ranking(apt_price_df, latest_month) :
        TRUE

\* The district in the URL of the page load, the districts chosen in the
\* dropdowns, and so the districts a session can select.
UrlInputs == {None, Some("Jeju"), Some("D03")}

DropdownInputs == {"D01", "D03"}

SelectableDistricts == DropdownInputs \cup {Val(u) : u \in UrlInputs \ {None}}

\* The districts of the boundary file lie in a row: each touches the one
\* before it and the one after it.
gu_gdf == [i \in 1..TopN |-> GuName(i)]

find_adjacent_districts(target_district) ==
    IF ~\E i \in 1..Len(gu_gdf) : gu_gdf[i] = target_district
    THEN <<>>
    ELSE LET t == CHOOSE i \in 1..Len(gu_gdf) : gu_gdf[i] = target_district
             adjacent_districts ==
                 SelectSeq(gu_gdf,
                           LAMBDA district_name :
                               /\ district_name # target_district
                               /\ \E i \in {t - 1, t + 1} \cap 1..Len(gu_gdf) :
                                      gu_gdf[i] = district_name)
         IN  head(adjacent_districts, 6)

\* get_district_neighbors_info: the "adjacent_districts" entry of the
\* result, or raised: DataFrame.merge finds no "gugun" column when no
\* district of the list has a row in the price table.
get_district_neighbors_info(target_district, ranking_df, price_df) ==
    LET adjacent_districts == find_adjacent_districts(target_district)
        all_districts == <<target_district>> \o adjacent_districts
        additional_info ==
            SelectSeq(all_districts,
                      LAMBDA district :
                          \E k \in 1..Len(price_df) :
                              price_df[k].gugun = district)
    IN  IF adjacent_districts = <<>>
        THEN [raised |-> FALSE, adjacent_districts |-> <<>>]
        ELSE IF additional_info = <<>>
        THEN [raised |-> TRUE, adjacent_districts |-> <<>>]
        ELSE [raised |-> FALSE, adjacent_districts |-> adjacent_districts]

\* The defaults of find_similar_price_districts.

\* st.cache_data: the results of the two finders on the loaded tables, by
\* district.
neighbors_info_cache ==
    [d \in SelectableDistricts |->
        get_district_neighbors_info(d, gugun_ranking_df, apt_price_df)]

similar_info_cache ==
    [d \in SelectableDistricts |->
        find_similar_price_districts(d, gugun_ranking_df, apt_price_df,
                                     15,
                                     6)]

\* The lists the comparison preparation can store for a district and a
\* comparison mode.
FinderResults(selected_district, comparison_mode) ==
    IF comparison_mode = "adjacent"
    THEN {neighbors_info_cache[selected_district].adjacent_districts}
    ELSE {r.similar_districts : r \in similar_info_cache[selected_district]}

(***************************************************************************)
(* The texts of the chat input.  A text is the string the user typed; the  *)
(* characters of the Korean keywords are written by their code points.     *)
(***************************************************************************)
RANKING_KEYWORDS ==
    {<<47021, 53433>>, <<45348>>, <<48372, 50668>>, <<49692, 50948>>}

RESET_KEYWORDS ==
    {<<51204, 52404>>, <<52488, 44592>>, <<52376, 51020>>,
     <<46028, 50500, 44032>>}

\* The code points of the texts the user submits: "hello", a text with the
\* ranking keyword U+B7AD U+D0B9, a text with the reset keyword
\* U+CC98 U+C74C.
Chars(text) ==
    CASE text = "hello" -> <<104, 101, 108, 108, 111>>
      [] text = "U+B7AD U+D0B9 ?" -> <<47021, 53433, 32, 63>>
      [] text = "U+CC98 U+C74C" -> <<52376, 51020>>
      [] OTHER -> <<>>

\* keyword in user_input
Contains(user_input, keyword) ==
    \E i \in 1..Len(user_input) :
        /\ i + Len(keyword) - 1 <= Len(user_input)
        /\ SubSeq(user_input, i, i + Len(keyword) - 1) = keyword

\* render_chat_interface: the action returned for a submitted text, None
\* when nothing was submitted.
render_chat_interface(user_input) ==
    IF user_input = "" THEN None
    ELSE IF \E keyword \in RANKING_KEYWORDS :
                Contains(Chars(user_input), keyword)
    THEN Some([type |-> "show_ranking", data |-> user_input])
    ELSE IF \E keyword \in RESET_KEYWORDS :
                Contains(Chars(user_input), keyword)
    THEN Some([type |-> "reset_view", data |-> user_input])
    ELSE Some([type |-> "chat", data |-> user_input])

(***************************************************************************)
(* The messages the script writes to the chat history.                     *)
(***************************************************************************)

\* The rows of the ranking for a district, and the rank the script reports
\* for a row: the label of the row in the index of the ranking, plus one.
district_rows ==
    [d \in SelectableDistricts |->
        SelectSeq(gugun_ranking_df, LAMBDA row : row.gugun = d)]

RankingRows(district) == district_rows[district]

ReportedRank(district_info) == district_info[1].rank + 1

(***************************************************************************)
(* One run of the script.  event is the widget event that started the run  *)
(* (NoEvent for the page load and for a run started by st.rerun()),        *)
(* display_fails whether showing the map raises, response the text         *)
(* lc.predict returns (None when it raises).  A run ends "done" at the     *)
(* last line of the script, "rerun" at a st.rerun() call, or "raised" at   *)
(* an exception nothing catches.  Besides the session and the URL          *)
(* parameter a run yields what it showed: the map key shown, the keys      *)
(* rendered and cleared, the selection at the time the map and the view    *)
(* were rendered, the ranks it reported, the widgets it drew, how often    *)
(* showing the map has failed.                                             *)
(***************************************************************************)
NoEvent ==
    [widget |-> "none", stage |-> "", district |-> "", clicked |-> 0,
     text |-> ""]

ModeButton(stage) == [NoEvent EXCEPT !.widget = "mode_button", !.stage = stage]

\* What a run that ends before display_map has shown: the mode buttons.
NothingShown ==
    [shown |-> None, rendered |-> {}, cleared |-> {}, at_render |-> None,
     reported |-> {}, drawn |-> {"mode_button"}, failures |-> 0]

RunResult(s, qp, outcome, seen) ==
    [st |-> s, query_params |-> qp, outcome |-> outcome, seen |-> seen]

\* Lines 61-66 and 194-219: validation and repair, the two initial
\* messages, the preparation of the comparison districts.
prepare_run(s) ==
    LET s1 == IF ~validate_session_state(s)
              THEN repair_session_state(s).st ELSE s
        s2 == IF ~TruthyList(s1.messages)
              THEN add_message(add_message(s1, "assistant", "average price of the latest month").st,
                               "assistant", "choose a mode").st
              ELSE s1
    IN  IF /\ TruthyStr(s2.selected_district)
           /\ TruthyStr(s2.comparison_mode)
           /\ ~TruthyList(s2.comparison_districts)
        THEN IF s2.comparison_mode = Some("adjacent")
             THEN LET neighbors_info ==
                          neighbors_info_cache[Val(s2.selected_district)]
                  IN  {[raised |-> neighbors_info.raised,
                        st |-> IF neighbors_info.raised THEN s2
                               ELSE set_comparison_districts(s2,
                                        [islist |-> TRUE,
                                         v |-> neighbors_info.adjacent_districts]).st]}
             ELSE IF s2.comparison_mode = Some("similar_price")
             THEN {[raised |-> FALSE,
                    st |-> set_comparison_districts(s2,
                               [islist |-> TRUE,
                                v |-> similar_info.similar_districts]).st] :
                      similar_info \in
                          similar_info_cache[Val(s2.selected_district)]}
             ELSE {[raised |-> FALSE, st |-> s2]}
        ELSE {[raised |-> FALSE, st |-> s2]}

\* Lines 319-344, taken when the URL parameter names another district than
\* the selected one.
url_parameter_run(s, qp) ==
    LET clicked_district == Val(qp)
        s1 == select_district(s, [isstr |-> TRUE, v |-> clicked_district]).st
        s2 == clear_comparison_mode(s1).st
        district_info_new == RankingRows(clicked_district)
    IN  IF district_info_new # <<>>
        THEN LET rank == ReportedRank(district_info_new)
             IN  RunResult(add_message(s2, "assistant",
                                       (clicked_district \o " selected on the map, rank " \o ToString(rank))).st,
                           None, "rerun",
                           [NothingShown EXCEPT
                               !.reported = {<<clicked_district, rank>>}])
        ELSE RunResult(s2, None, "rerun", NothingShown)

\* The context data of render_district_mode and render_comparison_mode:
\* the ranks named in it.
context_ranks(s) ==
    IF TruthyStr(s.selected_district)
       /\ s.view_stage \in {"district_selected", "comparison"}
       /\ RankingRows(Val(s.selected_district)) # <<>>
    THEN {<<Val(s.selected_district),
            ReportedRank(RankingRows(Val(s.selected_district)))>>}
    ELSE {}

\* Lines 450-512: the chat action.
chat_action_run(s, qp, needs_rerun, chat_action, response, seen) ==
    IF chat_action = None
    THEN RunResult(s, qp, IF needs_rerun THEN "rerun" ELSE "done", seen)
    ELSE LET action_type == Val(chat_action).type
             action_data == Val(chat_action).data
         IN  IF action_type = "ranking_requested"
             THEN RunResult(
                      add_message(
                          [update_view_stage(s, "gu_ranking").st
                              EXCEPT !.ranking_df = Some("ranking")],
                          "assistant", "ranking shown").st,
                      qp, "rerun", seen)
             ELSE IF action_type = "back_to_overview"
             THEN RunResult(
                      add_message(
                          [update_view_stage(s, "overview").st
                              EXCEPT !.ranking_df = None],
                          "assistant", "back to the overview").st,
                      qp, "rerun", seen)
             ELSE IF action_type = "chat"
             THEN LET answer == IF response = None THEN "sorry, an error occurred"
                                ELSE Val(response)
                      s1 == add_message(s, "user", action_data).st
                      s2 == add_message(s1, "assistant", answer).st
                  IN  RunResult(s2, qp, "rerun",
                                [seen EXCEPT
                                    !.reported = @ \cup context_ranks(s)])
             ELSE RunResult(s, qp, IF needs_rerun THEN "rerun" ELSE "done",
                            seen)

\* Lines 412-443, then the chat action: the map action display_map
\* returned.  A refresh dictionary unpacks into its two keys.
action_run(s, qp, map_action, chat_action, response, seen) ==
    IF map_action.shape = "tuple" /\ map_action.type = "quintile_selected"
    THEN LET quintile == map_action.data
             s1 == select_quintile(s, IF quintile = None THEN None
                                      ELSE [isint |-> TRUE,
                                            v |-> Val(quintile)]).st
             s2 == add_message(s1, "assistant", (IF quintile # None THEN "quintile " \o ToString(Val(quintile)) \o " selected" ELSE "quintile selection released")).st
         IN  chat_action_run(s2, qp, TRUE, chat_action, response, seen)
    ELSE chat_action_run(s, qp, FALSE, chat_action, response, seen)

\* The choices of the district dropdowns.
placeholder == "choose a district"

all_districts ==
    <<placeholder>>
        \o sorted([i \in 1..Len(gugun_ranking_df) |-> gugun_ranking_df[i].gugun])

\* render_district_mode and the actions after it.
render_district_mode(s, qp, event, map_action, response, seen) ==
    LET drawn == [seen EXCEPT !.drawn = @ \cup {"district_select"}]
    IN  IF /\ event.widget = "district_select"
           /\ event.district # placeholder
           /\ Some(event.district) # s.selected_district
        THEN LET selected_district_new == event.district
                 s1 == select_district(s, [isstr |-> TRUE,
                                           v |-> selected_district_new]).st
                 district_info_new == RankingRows(selected_district_new)
             IN  IF district_info_new # <<>>
                 THEN LET rank == ReportedRank(district_info_new)
                      IN  RunResult(
                              add_message(s1, "assistant",
                                  ("changed to " \o selected_district_new \o ", rank " \o ToString(rank))).st,
                              qp, "rerun",
                              [drawn EXCEPT
                                  !.reported =
                                      {<<selected_district_new, rank>>}])
                 ELSE RunResult(s1, qp, "rerun", drawn)
        ELSE action_run(s, qp, map_action,
                        render_chat_interface(
                            IF event.widget = "chat_input" THEN event.text
                            ELSE ""),
                        response,
                        [drawn EXCEPT !.drawn = @ \cup {"chat_input"}])

\* render_comparison_mode and the actions after it.  all_districts.index
\* raises ValueError for a district that is not in the list, .iloc[0] raises
\* IndexError for one without a row in the ranking, and
\* _render_comparison_results raises what get_district_neighbors_info does.
render_comparison_mode(s, qp, event, map_action, response, seen) ==
    IF TruthyStr(s.selected_district)
       /\ ~(\E i \in 1..Len(all_districts) : all_districts[i] = (Val(s.selected_district)))
    THEN RunResult(s, qp, "raised", seen)
    ELSE IF /\ event.widget = "district_select"
            /\ event.district # placeholder
            /\ Some(event.district) # s.selected_district
    THEN RunResult(
             clear_comparison_mode(
                 select_district(s, [isstr |-> TRUE,
                                     v |-> event.district]).st).st,
             qp, "rerun",
             [seen EXCEPT !.drawn = @ \cup {"district_select"}])
    ELSE IF TruthyStr(s.selected_district)
            /\ RankingRows(Val(s.selected_district)) = <<>>
    THEN RunResult(s, qp, "raised",
                   [seen EXCEPT !.drawn = @ \cup {"district_select"}])
    ELSE IF TruthyStr(s.selected_district)
            /\ event.widget = "comparison_button"
    THEN RunResult(set_comparison_mode(s, Some(event.stage)).st, qp, "rerun",
                   [seen EXCEPT !.drawn = @ \cup {"district_select",
                                                  "comparison_button"}])
    ELSE IF /\ s.comparison_mode = Some("adjacent")
            /\ neighbors_info_cache[Val(s.selected_district)].raised
    THEN RunResult(s, qp, "raised",
                   [seen EXCEPT !.drawn = @ \cup {"district_select",
                                                  "comparison_button"}])
    ELSE action_run(s, qp, map_action,
                    render_chat_interface(
                        IF event.widget = "chat_input" THEN event.text
                        ELSE ""),
                    response,
                    [seen EXCEPT
                        !.drawn = @ \cup {"district_select", "chat_input"}
                            \cup (IF TruthyStr(s.selected_district)
                                  THEN {"comparison_button"} ELSE {})])

\* Lines 236-516: the mode buttons, the URL parameter, display_map, the
\* view of the stage and the actions.
render_run(s, qp, event, display_fails, response) ==
    IF /\ event.widget = "mode_button"
       /\ event.stage = "comparison" => TruthyStr(s.selected_district)
    THEN RunResult(update_view_stage(s, event.stage).st, qp, "rerun",
                   NothingShown)
    ELSE IF /\ s.view_stage \in {"district_selected", "comparison"}
            /\ qp # None
            /\ qp # s.selected_district
    THEN url_parameter_run(s, qp)
    ELSE LET d == display_map(s, display_fails,
                              event.widget = "regenerate_map",
                              IF event.widget = "quintile_button"
                              THEN event.clicked ELSE 0,
                              event.widget = "show_all_button")
             buttons == ~TruthyStr(s.selected_district)
                            /\ s.view_stage = "gu_ranking"
             seen == [shown |-> d.shown, rendered |-> d.rendered,
                      cleared |-> d.cleared,
                      at_render |-> Some([selected_district |-> s.selected_district,
                                          selected_quintile |-> s.selected_quintile,
                                          comparison_mode |-> s.comparison_mode,
                                          comparison_districts |-> s.comparison_districts,
                                          view_stage |-> s.view_stage]),
                      reported |-> {},
                      drawn |-> {"mode_button"}
                          \cup (IF buttons THEN {"quintile_button"} ELSE {})
                          \cup (IF buttons /\ s.selected_quintile # None
                                THEN {"show_all_button"} ELSE {})
                          \cup (IF display_fails THEN {"regenerate_map"}
                                ELSE {}),
                      failures |-> IF display_fails THEN 1 ELSE 0]
         IN  CASE d.st.view_stage = "district_selected" ->
                      render_district_mode(d.st, qp, event, d.ret, response,
                                           seen)
               [] d.st.view_stage = "comparison" ->
                      render_comparison_mode(d.st, qp, event, d.ret,
                                             response, seen)
               [] OTHER ->
                      action_run(d.st, qp, d.ret,
                                 render_chat_interface(
                                     IF event.widget = "chat_input"
                                     THEN event.text ELSE ""),
                                 response,
                                 [seen EXCEPT !.drawn = @ \cup {"chat_input"}])

\* The runs of the script from a session and a URL parameter.
script_run(s, qp, event, display_fails, response) ==
    {IF p.raised THEN RunResult(p.st, qp, "raised", NothingShown)
     ELSE render_run(p.st, qp, event, display_fails, response) :
        p \in prepare_run(s)}

\* The number of runs of the session in which showing the map has failed.
Failures == IF last.op = "script_run" THEN last.pre.failures ELSE 0

\* A run started by event.  A run follows a st.rerun() call without an
\* event; any other run is started by a widget the run before drew, and
\* the widget is read when the run draws it again.
ScriptRun(events, responses) ==
    \E event \in events :
        /\ IF last.op = "script_run" /\ last.ret # "rerun"
           THEN event # NoEvent /\ event.widget \in last.pre.drawn
           ELSE event = NoEvent
        /\ \E display_fails \in BOOLEAN :
           \E response \in (IF event.widget = "chat_input" THEN responses
                            ELSE {None}) :
           \E r \in script_run(session_state, query_params, event, display_fails, response) :
               /\ event # NoEvent => event.widget \in r.seen.drawn
               /\ Failures + r.seen.failures <= MaxFailures
               /\ Len(r.st.messages) <= MaxAppMsgs
               /\ Cardinality(MapKeys(r.st)) <= MaxAppCached
               /\ session_state' = r.st
               /\ query_params' = r.query_params
               /\ last' = [Call("script_run", event, r.outcome,
                                 [r.seen EXCEPT !.failures = @ + Failures])
                              EXCEPT !.rendered_keys = @ \cup r.seen.rendered]

(***************************************************************************)
(* The application driven by its widgets.  The session starts at the page  *)
(* load, with or without a district in the URL.                            *)
(***************************************************************************)

Responses == {None, Some("answer")}

InitApp ==
    /\ query_params \in UrlInputs
    /\ session_state = init_session_state
    /\ last = [op |-> "init_session_state", arg |-> None, ret |-> None,
               pre |-> None, rendered_keys |-> {}]

LoadOrRerun == ScriptRun({NoEvent}, Responses)

PressModeButton == ScriptRun({ModeButton(stage) : stage \in VALID_VIEW_STAGES}, Responses)

ChooseDistrict == ScriptRun({([NoEvent EXCEPT !.widget = "district_select", !.district = d]) : d \in DropdownInputs}, Responses)

PressComparisonButton == ScriptRun({([NoEvent EXCEPT !.widget = "comparison_button", !.stage = mode]) : mode \in {"adjacent", "similar_price"}}, Responses)

PressQuintileButton == ScriptRun({([NoEvent EXCEPT !.widget = "quintile_button", !.clicked = i]) : i \in {1}} \cup {([NoEvent EXCEPT !.widget = "show_all_button"])}, Responses)

PressRegenerate == ScriptRun({([NoEvent EXCEPT !.widget = "regenerate_map"])}, Responses)

SubmitChat == ScriptRun({([NoEvent EXCEPT !.widget = "chat_input", !.text = text]) : text \in {"hello", "U+B7AD U+D0B9 ?", "U+CC98 U+C74C"}}, Responses)

NextApp ==
    \/ LoadOrRerun
    \/ PressModeButton
    \/ ChooseDistrict
    \/ PressComparisonButton
    \/ PressQuintileButton
    \/ PressRegenerate
    \/ SubmitChat

SpecApp == InitApp /\ [][NextApp]_vars

(***************************************************************************)
(* Properties of the state store.                                          *)
(***************************************************************************)
HasDistrict(s) == TruthyStr(s.selected_district)

\* C1: update_view_stage("comparison") called while no district is selected
\* (None or empty) leaves view_stage at "district_selected", never at
\* "comparison".
C1_ComparisonWithoutDistrict ==
    (/\ last.op = "update_view_stage"
     /\ last.arg = "comparison"
     /\ ~last.pre.had_district)
        => /\ session_state.view_stage = "district_selected"
           /\ session_state.view_stage # "comparison"

C1_Witness ==
    /\ last.op = "update_view_stage"
    /\ last.arg = "comparison"
    /\ ~last.pre.had_district
    /\ last.ret = TRUE
    /\ session_state.selected_district = None

\* C2: in every state reachable through the state-store operations,
\* view_stage = "comparison" implies that a selected district is present.
C2_ComparisonRequiresDistrict ==
    session_state.view_stage = "comparison" => HasDistrict(session_state)

\* C3: an invalid selection is a no-op: update_view_stage with an invalid
\* stage, select_quintile with a non-null value outside 1..5 and
\* set_comparison_mode with an invalid mode return False and leave every
\* session field unchanged.
C3_InvalidSelectionRejected ==
    [][/\ (last'.op = "update_view_stage"
           /\ last'.arg \notin {"overview", "gu_ranking",
                                 "district_selected", "comparison"})
          => /\ last'.ret = FALSE
             /\ StoreFields(session_state') = StoreFields(session_state)
       /\ (last'.op = "select_quintile"
           /\ last'.arg # None
           /\ ~(last'.arg.isint /\ last'.arg.v \in 1..5))
          => /\ last'.ret = FALSE
             /\ StoreFields(session_state') = StoreFields(session_state)
       /\ (last'.op = "set_comparison_mode"
           /\ last'.arg \notin {None, Some("adjacent"), Some("similar_price")})
          => /\ last'.ret = FALSE
             /\ StoreFields(session_state') = StoreFields(session_state)
      ]_vars

C3_Witness ==
    /\ last.op = "set_comparison_mode"
    /\ last.arg = Some("nearby")
    /\ last.ret = FALSE
    /\ session_state.comparison_mode = Some("adjacent")
    /\ session_state.comparison_districts # <<>>
    /\ session_state.selected_quintile # None

\* C4: after a successful update_view_stage(stage): "overview" leaves no
\* district, no quintile, no comparison mode and no comparison districts;
\* "gu_ranking" leaves no district, no comparison mode and no comparison
\* districts; "district_selected" leaves no comparison mode and no
\* comparison districts.
C4_StageSideEffects ==
    (last.op = "update_view_stage" /\ last.ret = TRUE)
        => /\ last.arg = "overview"
              => /\ session_state.selected_district = None
                 /\ session_state.selected_quintile = None
                 /\ session_state.comparison_mode = None
                 /\ session_state.comparison_districts = <<>>
           /\ last.arg = "gu_ranking"
              => /\ session_state.selected_district = None
                 /\ session_state.comparison_mode = None
                 /\ session_state.comparison_districts = <<>>
           /\ last.arg = "district_selected"
              => /\ session_state.comparison_mode = None
                 /\ session_state.comparison_districts = <<>>

C4_Witness ==
    /\ last.op = "update_view_stage"
    /\ last.arg = "gu_ranking"
    /\ last.ret = TRUE
    /\ last.pre.had_district
    /\ session_state.view_stage = "gu_ranking"
    /\ session_state.selected_quintile # None

\* C5: update_view_stage changes nothing beyond its side effects: the
\* quintile is kept for every stage but "overview", the district is kept
\* for "district_selected" and "comparison", the messages are kept for
\* every stage, and "comparison" with a district selected changes only
\* view_stage.
C5_StageFrame ==
    [][last'.op = "update_view_stage"
       => /\ last'.arg # "overview"
             => session_state'.selected_quintile
                    = session_state.selected_quintile
          /\ last'.arg \in {"district_selected", "comparison"}
             => session_state'.selected_district
                    = session_state.selected_district
          /\ session_state'.messages = session_state.messages
          /\ (last'.arg = "comparison" /\ HasDistrict(session_state))
             => session_state'
                    = [session_state EXCEPT !.view_stage = "comparison"]
      ]_vars

C5_Witness ==
    /\ last.op = "update_view_stage"
    /\ last.arg = "comparison"
    /\ session_state.view_stage = "comparison"
    /\ HasDistrict(session_state)
    /\ session_state.comparison_mode # None
    /\ session_state.comparison_districts # <<>>
    /\ session_state.selected_quintile # None
    /\ session_state.messages # <<>>

\* C6: select_quintile toggles: for v in 1..5, select_quintile(v) twice in
\* a row leaves no quintile selected if v was not selected before the first
\* call; select_quintile(v) then select_quintile(w), w in 1..5 and w # v,
\* leaves w selected.
IsSelectQuintile(call, v) ==
    /\ call.op = "select_quintile"
    /\ call.arg = [isint |-> TRUE, v |-> v]

C6_QuintileToggle ==
    [][(last.op = "select_quintile" /\ last'.op = "select_quintile")
       => \A v \in 1..5 :
             /\ (/\ IsSelectQuintile(last, v)
                 /\ last.pre # Some(v)
                 /\ IsSelectQuintile(last', v))
                => session_state'.selected_quintile = None
             /\ \A w \in (1..5) \ {v} :
                   (IsSelectQuintile(last, v) /\ IsSelectQuintile(last', w))
                       => session_state'.selected_quintile = Some(w)
      ]_vars

C6_Witness ==
    /\ IsSelectQuintile(last, 3)
    /\ last.pre = Some(3)
    /\ last.ret = TRUE
    /\ session_state.selected_quintile = None

\* C7: the comparison districts are cleared whenever the comparison mode
\* changes: set_comparison_mode(m) with a valid m different from the
\* current mode leaves them empty, with m equal to the current mode leaves
\* them unchanged, and no operation changes comparison_mode while leaving
\* a non-empty comparison_districts in place.
C7_ModeChangeClearsDistricts ==
    [][/\ (/\ last'.op = "set_comparison_mode"
           /\ last'.arg \in {None, Some("adjacent"), Some("similar_price")}
           /\ last'.arg # session_state.comparison_mode)
          => session_state'.comparison_districts = <<>>
       /\ (/\ last'.op = "set_comparison_mode"
           /\ last'.arg = session_state.comparison_mode)
          => session_state'.comparison_districts
                 = session_state.comparison_districts
       /\ session_state'.comparison_mode # session_state.comparison_mode
          => session_state'.comparison_districts = <<>>
      ]_vars

C7_Witness ==
    /\ last.op = "set_comparison_mode"
    /\ last.arg = Some("similar_price")
    /\ last.pre.old_mode = Some("adjacent")
    /\ last.pre.had_districts
    /\ session_state.comparison_mode = Some("similar_price")
    /\ session_state.comparison_districts = <<>>

\* C8: the chat history is append-only: add_message with non-empty role
\* and content appends exactly one entry at the tail and returns True,
\* with an empty role or content it returns False and leaves the history
\* unchanged, and across state-store operations, repair and map rendering
\* the earlier history is always a prefix of the later one.
C8_HistoryAppendOnly ==
    [][/\ (/\ last'.op = "add_message"
           /\ last'.arg[1] # ""
           /\ last'.arg[2] # "")
          => /\ last'.ret = TRUE
             /\ session_state'.messages
                    = session_state.messages
                          \o <<[role |-> last'.arg[1],
                                content |-> last'.arg[2]]>>
       /\ (/\ last'.op = "add_message"
           /\ (last'.arg[1] = "" \/ last'.arg[2] = ""))
          => /\ last'.ret = FALSE
             /\ session_state'.messages = session_state.messages
       /\ (Len(session_state.messages) <= Len((session_state'.messages)) /\ SubSeq((session_state'.messages), 1, Len(session_state.messages)) = session_state.messages)
      ]_vars

C8_Witness ==
    /\ last.op = "add_message"
    /\ last.ret = TRUE
    /\ Len(session_state.messages) = 2
    /\ session_state.messages[1].role # session_state.messages[2].role
    /\ is_map_cached(session_state, MAP_HTML_SEOUL_TOTAL)
    /\ Cardinality(MapKeys(session_state)) >= 3

\* C9: every entry of the chat history has role "user" or "assistant",
\* after any sequence of add_message calls with non-empty role strings.
C9_RolesUserOrAssistant ==
    \A i \in 1..Len(session_state.messages) :
        session_state.messages[i].role \in {"user", "assistant"}

\* C10: validate_session_state returns True exactly when view_stage is one
\* of the four valid stages, comparison_mode is None, adjacent or
\* similar_price, and view_stage = "comparison" implies a selected
\* district; it never modifies the session state.
C10_ValidateCharacterised ==
    [][last'.op = "validate_session_state"
       => /\ last'.ret
                = (/\ session_state.view_stage
                          \in {"overview", "gu_ranking",
                               "district_selected", "comparison"}
                   /\ session_state.comparison_mode
                          \in {None, Some("adjacent"), Some("similar_price")}
                   /\ (session_state.view_stage = "comparison"
                          => HasDistrict(session_state)))
          /\ session_state' = session_state
      ]_vars

C10_Witness ==
    /\ last.op = "validate_session_state"
    /\ last.ret = FALSE
    /\ session_state.view_stage = "comparison"
    /\ session_state.comparison_mode = Some("adjacent")
    /\ ~HasDistrict(session_state)

\* C11: repair_session_state applied to a state for which
\* validate_session_state returns True changes no session field.
C11_RepairNoOpOnValid ==
    [][(/\ last'.op = "repair_session_state"
        /\ session_state.view_stage
               \in {"overview", "gu_ranking", "district_selected",
                    "comparison"}
        /\ session_state.comparison_mode
               \in {None, Some("adjacent"), Some("similar_price")}
        /\ (session_state.view_stage = "comparison"
               => HasDistrict(session_state)))
       => session_state' = session_state
      ]_vars

C11_Witness ==
    /\ last.op = "repair_session_state"
    /\ session_state.view_stage = "comparison"
    /\ HasDistrict(session_state)
    /\ session_state.comparison_mode = Some("similar_price")
    /\ session_state.comparison_districts # <<>>
    /\ session_state.selected_quintile # None

\* C12: map cache round trip: after set_map_to_cache(a, key),
\* get_map_from_cache(key) returns a and is_map_cached(key) is True; after
\* clear_map_cache(key), is_map_cached(key) is False; clear_map_cache on a
\* key that is not cached changes nothing; set_map_to_cache and
\* clear_map_cache on one key leave the entry of every other key as it was.
C12_CacheRoundTrip ==
    [][/\ (/\ last.op = "set_map_to_cache"
           /\ last'.op = "get_map_from_cache"
           /\ last'.arg = last.arg[2])
          => last'.ret = last.arg[1]
       /\ (/\ last.op = "set_map_to_cache"
           /\ last'.op = "is_map_cached"
           /\ last'.arg = last.arg[2])
          => last'.ret = TRUE
       /\ (/\ last.op = "clear_map_cache"
           /\ last'.op = "is_map_cached"
           /\ last'.arg = last.arg)
          => last'.ret = FALSE
       /\ (last'.op = "clear_map_cache" /\ last'.pre = FALSE)
          => session_state' = session_state
       /\ last'.op \in {"set_map_to_cache", "clear_map_cache"}
          => LET key == IF last'.op = "set_map_to_cache"
                        THEN last'.arg[2] ELSE last'.arg
             IN  \A k \in (DOMAIN session_state \cup DOMAIN session_state')
                              \ {key} :
                    /\ k \in DOMAIN session_state
                    /\ k \in DOMAIN session_state'
                    /\ session_state'[k] = session_state[k]
      ]_vars

C12_Witness ==
    /\ last.op = "get_map_from_cache"
    /\ last.arg = MAP_HTML_DISTRICT_ZOOM_PREFIX \o "Gangnam__"
    /\ MAP_HTML_DISTRICT_ZOOM_PREFIX \o "Gangnam__" \in DOMAIN session_state
    /\ session_state[MAP_HTML_DISTRICT_ZOOM_PREFIX \o "Gangnam__"]
           = "<html>B</html>"
    /\ MAP_HTML_SEOUL_TOTAL \in DOMAIN session_state
    /\ session_state[MAP_HTML_SEOUL_TOTAL] = "<html>A</html>"
    /\ MAP_HTML_GU_RANKING_PREFIX \o "None__" \notin DOMAIN session_state

\* C13 as stated: set_map_to_cache and clear_map_cache, for any key, leave
\* view_stage, selected_district, selected_quintile, comparison_mode,
\* comparison_districts and messages unchanged.
C13_CacheNeverWritesFields ==
    [][last'.op \in {"set_map_to_cache", "clear_map_cache"}
       => \A f \in {"view_stage", "selected_district", "selected_quintile",
                    "comparison_mode", "comparison_districts", "messages"} :
             /\ (f \in DOMAIN session_state') = (f \in DOMAIN session_state)
             /\ f \in DOMAIN session_state
                => session_state'[f] = session_state[f]
      ]_vars

\* C13 amended: set_map_to_cache and clear_map_cache, for any key that is
\* not itself the name of one of the six State Store fields, leave those
\* fields unchanged.
C13_CacheWritesOnlyItsKey ==
    [][(/\ last'.op \in {"set_map_to_cache", "clear_map_cache"}
        /\ (IF last'.op = "set_map_to_cache" THEN last'.arg[2] ELSE last'.arg)
               \notin {"view_stage", "selected_district", "selected_quintile",
                       "comparison_mode", "comparison_districts", "messages"})
       => \A f \in {"view_stage", "selected_district", "selected_quintile",
                    "comparison_mode", "comparison_districts", "messages"} :
             /\ (f \in DOMAIN session_state') = (f \in DOMAIN session_state)
             /\ f \in DOMAIN session_state
                => session_state'[f] = session_state[f]
      ]_vars

C13_Witness ==
    /\ last.op = "clear_map_cache"
    /\ last.arg = MAP_HTML_GU_RANKING_PREFIX \o "None__"
    /\ last.pre = TRUE
    /\ "view_stage" \in DOMAIN session_state
    /\ session_state.view_stage = "comparison"
    /\ session_state.selected_district = Some("Gangnam")
    /\ session_state.selected_quintile = Some(3)
    /\ session_state.comparison_districts # <<>>

\* C14: a map cache entry never expires on its own: an entry stored under
\* a key is still stored, with the same artifact, after every state-store
\* operation (view change, district, quintile and comparison selection,
\* message, repair) and every display_map run, unless that step called
\* clear_map_cache for that key.
C14_EntriesNeverExpire ==
    [][\A key \in MapKeys(session_state) :
          \/ /\ key \in DOMAIN session_state'
             /\ session_state'[key] = session_state[key]
          \/ /\ last'.op = "display_map"
             /\ key \in last'.pre.cleared
          \/ /\ last'.op = "clear_map_cache"
             /\ last'.arg = key
      ]_vars

C14_Witness ==
    /\ last.op = "update_view_stage"
    /\ last.arg = "overview"
    /\ last.pre.had_district
    /\ session_state.selected_district = None
    /\ session_state.messages # <<>>
    /\ MAP_HTML_DISTRICT_ZOOM_PREFIX \o "Gangnam___adj_Seocho"
           \in DOMAIN session_state
    /\ MAP_HTML_GU_RANKING_PREFIX \o "None___adj_Seocho"
           \in DOMAIN session_state

C16_KeyOfComparisonSet ==
    last.op = "cache_keys"
        => LET a == session_state.comparison_districts
               b == last.arg
               same == {a[i] : i \in 1..Len(a)} = {b[i] : i \in 1..Len(b)}
           IN  /\ (last.ret.ranking = last.ret.other_ranking) = same
               /\ (last.ret.zoom = last.ret.other_zoom) = same
               /\ a = <<>>
                  => /\ last.ret.ranking
                         = "__MAP_HTML_GU_RANKING_Q"
                               \o FormatQuintile(session_state.selected_quintile)
                               \o "__"
                     /\ last.ret.zoom
                         = "__MAP_HTML_DISTRICT_ZOOM_"
                               \o Val(session_state.selected_district)
                               \o "__"

C16_Witness ==
    /\ last.op = "cache_keys"
    /\ session_state.comparison_districts = <<"Seocho", "Gangnam">>
    /\ last.arg = <<"Gangnam", "Seocho">>
    /\ last.ret.ranking = "__MAP_HTML_GU_RANKING_Q3___adj_Gangnam_Seocho"
    /\ last.ret.other_ranking = last.ret.ranking
    /\ last.ret.zoom = "__MAP_HTML_DISTRICT_ZOOM_Mapo___adj_Gangnam_Seocho"
    /\ last.ret.other_zoom = last.ret.zoom

\* C17: for every ranking of exactly 25 districts calculate_price_quintiles
\* returns exactly 5 groups, keys 1..5, of exactly 5 districts each, group k
\* holding ranks 5(k-1)+1..5k; the groups are pairwise disjoint and their
\* union is all 25 districts.
C17_QuintilesOfTwentyFive ==
    (last.op = "calculate_price_quintiles" /\ Len(last.arg) = 25)
        => LET ranking == last.arg
               q == last.ret.quintiles
               members(k) == {q[k].gus[j] : j \in 1..Len(q[k].gus)}
           IN  /\ ~last.ret.raised
               /\ DOMAIN q = 1..5
               /\ \A k \in 1..5 :
                     /\ Len(q[k].gus) = 5
                     /\ Cardinality(members(k)) = 5
                     /\ q[k].count = 5
                     /\ members(k)
                            = {ranking[i].gugun :
                                 i \in {j \in 1..25 :
                                          ranking[j].rank
                                              \in (5 * (k - 1) + 1)..(5 * k)}}
               /\ \A k, l \in 1..5 : k # l => members(k) \cap members(l) = {}
               /\ UNION {members(k) : k \in 1..5}
                      = {ranking[i].gugun : i \in 1..25}
               /\ Cardinality({ranking[i].gugun : i \in 1..25}) = 25

C17_Witness ==
    /\ last.op = "calculate_price_quintiles"
    /\ Len(last.arg) = 25
    /\ last.arg[1].price_84m2_manwon = last.arg[2].price_84m2_manwon
    /\ last.arg[1].gugun = "D02"
    /\ ~last.ret.raised
    /\ last.ret.quintiles[1].gus = <<"D02", "D01", "D03", "D04", "D05">>
    /\ last.ret.quintiles[5].gus = <<"D21", "D22", "D23", "D24", "D25">>

\* C18: for a ranking of N districts, 1 <= N <= 25,
\* calculate_price_quintiles completes and partitions the ranking, in rank
\* order, into 5 contiguous groups of ceil(N/5) districts, the last group
\* receiving the remainder; the groups are disjoint and cover all N
\* districts.
C18_QuintilesOfAnyLength ==
    (/\ last.op = "calculate_price_quintiles"
     /\ Len(last.arg) >= 1
     /\ Len(last.arg) <= 25)
        => LET ranking == last.arg
               n == Len(ranking)
               size == (n + 4) \div 5
               q == last.ret.quintiles
           IN  /\ ~last.ret.raised
               /\ DOMAIN q = 1..5
               /\ \A k \in 1..5 :
                     LET first == size * (k - 1) + 1
                         end == IF size * k < n THEN size * k ELSE n
                     IN  q[k].gus = [j \in 1..(end - first + 1) |->
                                        ranking[first + j - 1].gugun]

\* C19 amended: calculate_gugun_ranking(df, month) returns one entry per
\* district that has records in that month, holding the average of the
\* district's prices of that month, ordered by non-increasing average
\* price, with ranks 1..N assigned in that order; it returns the first 25
\* entries, or all of them when fewer than 25 districts exist; records of
\* other months do not influence the result.  The order among districts
\* with equal average price is not fixed.
C19_RankingOfMonth ==
    last.op = "calculate_gugun_ranking"
        => LET df == last.arg.df
               month == last.arg.deal_month
               r == last.ret
               of(g) == SelectSeq(df, LAMBDA row :
                                      row.gugun = g /\ row.deal_ym = month)
               districts == {df[i].gugun :
                               i \in {j \in 1..Len(df) : df[j].deal_ym = month}}
               names == {r[i].gugun : i \in 1..Len(r)}
           IN  /\ names \subseteq districts
               /\ Cardinality(names) = Len(r)
               /\ Len(r) = IF Cardinality(districts) < 25
                           THEN Cardinality(districts) ELSE 25
               /\ \A i \in 1..Len(r) :
                     /\ r[i].rank = i
                     /\ r[i].price_84m2_manwon * Len(of(r[i].gugun))
                            = SumPrices(of(r[i].gugun))
               /\ \A i, j \in 1..Len(r) :
                     i < j => r[i].price_84m2_manwon >= r[j].price_84m2_manwon
               /\ \A g \in districts \ names :
                     SumPrices(of(g))
                         <= r[Len(r)].price_84m2_manwon * Len(of(g))

\* C19 as stated: as above, and districts with equal average price keep
\* their original relative order, the order of their first rows in df.
C19_RankingTiesKeepRowOrder ==
    last.op = "calculate_gugun_ranking"
        => /\ C19_RankingOfMonth
           /\ LET df == last.arg.df
                  month == last.arg.deal_month
                  r == last.ret
                  first(g) ==
                      CHOOSE i \in 1..Len(df) :
                          /\ df[i].gugun = g
                          /\ df[i].deal_ym = month
                          /\ \A j \in 1..(i - 1) :
                                ~(df[j].gugun = g /\ df[j].deal_ym = month)
              IN  \A i, j \in 1..Len(r) :
                     (/\ i < j
                      /\ r[i].price_84m2_manwon = r[j].price_84m2_manwon)
                         => first(r[i].gugun) < first(r[j].gugun)

C19_Witness ==
    /\ last.op = "calculate_gugun_ranking"
    /\ last.arg.deal_month = 202412
    /\ Len(last.arg.df) = 28
    /\ Len(last.ret) = 25
    /\ last.ret[1].gugun = "D27"
    /\ last.ret[1].price_84m2_manwon = 12700
    /\ last.ret[25].gugun = "D03"
    /\ last.ret[25].rank = 25

(***************************************************************************)
(* C20: find_similar_price_districts(target, ranking, tolerance_pct = t,   *)
(* max_results = m) returns as similar_districts exactly the districts     *)
(* other than the target whose price p satisfies                           *)
(* target_price * (1 - t/100) <= p <= target_price * (1 + t/100), both     *)
(* bounds inclusive, ordered by non-increasing similarity and truncated to *)
(* the first m; the target never appears in the result.                    *)
(***************************************************************************)
C20_SimilarWithinInclusiveWindow ==
    (/\ last.op = "find_similar_price_districts"
     /\ last.ret.target_price # None)
    => LET ranking == last.arg.ranking_df
           target == last.arg.target_district
           t == last.arg.tolerance_pct
           m == last.arg.max_results
           T == last.ret.target_price[1]
           r == last.ret.similar_districts
           Price(g) == (CHOOSE row \in {ranking[i] : i \in 1..Len(ranking)} :
                            row.gugun = g).price_84m2_manwon
           Dist(g) == AbsDiff(Price(g), T)
           W == {ranking[i].gugun : i \in {k \in 1..Len(ranking) :
                    /\ ranking[k].gugun # target
                    /\ T * (100 - t) <= 100 * ranking[k].price_84m2_manwon
                    /\ 100 * ranking[k].price_84m2_manwon <= T * (100 + t)}}
       IN  /\ \A i \in 1..Len(r) : r[i] \in W
           /\ \A i, j \in 1..Len(r) : i < j => r[i] # r[j] /\ Dist(r[i]) <= Dist(r[j])
           /\ Len(r) = (IF Cardinality(W) > m THEN m ELSE Cardinality(W))
           /\ \A g \in W : (\A i \in 1..Len(r) : r[i] # g)
                           => \A i \in 1..Len(r) : Dist(r[i]) <= Dist(g)
           /\ \A i \in 1..Len(r) : r[i] # target

(***************************************************************************)
(* C21: find_similar_price_districts never raises: when the target is      *)
(* absent from the ranking, when no other district falls in the price      *)
(* window, or when an internal step fails (here: the apartment table has   *)
(* no row, so the merge on "gugun" fails), the result has an empty         *)
(* similar_districts list and a non-empty summary.                         *)
(***************************************************************************)
C21_SimilarFailsGracefully ==
    last.op = "find_similar_price_districts"
    => LET ranking == last.arg.ranking_df
           target == last.arg.target_district
           t == last.arg.tolerance_pct
           rows == {ranking[i] : i \in 1..Len(ranking)}
           absent == \A row \in rows : row.gugun # target
           T == (CHOOSE row \in rows : row.gugun = target).price_84m2_manwon
           W == {row \in rows :
                    /\ row.gugun # target
                    /\ T * (100 - t) <= 100 * row.price_84m2_manwon
                    /\ 100 * row.price_84m2_manwon <= T * (100 + t)}
       IN  (absent \/ W = {} \/ last.arg.apt_price_df = <<>>)
           => /\ last.ret.similar_districts = <<>>
              /\ last.ret.summary # ""

\* An internal step failed: the target is in the ranking with a neighbour in
\* its window, and the result is the one of the except branch.
C21_Witness ==
    /\ last.op = "find_similar_price_districts"
    /\ last.arg.target_district = GuName(3)
    /\ last.arg.apt_price_df = <<>>
    /\ Len(last.arg.ranking_df) = 5
    /\ last.ret.error
    /\ last.ret.similar_districts = <<>>
    /\ last.ret.summary = SummaryFailed

(***************************************************************************)
(* C22: after repair_session_state has run on a session state in which all *)
(* state keys exist, validate_session_state returns True; the repair       *)
(* changes view_stage, comparison_mode and comparison_districts only, and  *)
(* never selected_district, selected_quintile or messages.                 *)
(***************************************************************************)
C22_RepairMakesValid ==
    [][last'.op = "repair_session_state"
       => /\ validate_session_state(session_state')
          /\ session_state'.selected_district = session_state.selected_district
          /\ session_state'.selected_quintile = session_state.selected_quintile
          /\ session_state'.messages = session_state.messages
          /\ \A key \in DOMAIN session_state :
                key \notin {"view_stage", "comparison_mode",
                            "comparison_districts"}
                => (key \in DOMAIN session_state'
                    /\ session_state'[key] = session_state[key])
      ]_vars

\* A repair of a state that was not valid: the view was "comparison" without
\* a district or invalid, and the comparison mode was invalid.
C22_Witness ==
    /\ last.op = "repair_session_state"
    /\ ~last.pre.valid
    /\ session_state.view_stage \in {"district_selected", "overview"}
    /\ ~HasDistrict(session_state)
    /\ session_state.selected_quintile # None
    /\ session_state.comparison_mode = None

(***************************************************************************)
(* C24: when displaying the map fails and the user presses the regenerate  *)
(* button, the cache entry removed is the one under the key the failed map *)
(* was looked up with (same prefix, same selection, same comparison        *)
(* suffix), so that the entry is gone and the next run renders it again.   *)
(***************************************************************************)
C24_RegenerateClearsShownKey ==
    [][(last'.op = "display_map" /\ last'.pre.cleared # {})
       => LET lookup_key ==
                  IF TruthyStr(session_state.selected_district)
                  THEN district_zoom_cache_key(session_state)
                  ELSE IF session_state.view_stage = "gu_ranking"
                  THEN MAP_HTML_GU_RANKING_PREFIX
                           \o FormatQuintile(session_state.selected_quintile)
                           \o "__"
                  ELSE MAP_HTML_SEOUL_TOTAL
          IN  /\ last'.pre.cleared = {lookup_key}
              /\ ~is_map_cached(session_state', lookup_key)
      ]_vars

(***************************************************************************)
(* C23: whenever a run shows the district zoom map or the ranking map from *)
(* the cache, the map shown is the one the selection of that run renders:  *)
(* its selected district, its selected quintile, its set of comparison     *)
(* districts and its comparison mode.                                      *)
(***************************************************************************)
C23_ShownMapOfCurrentSelection ==
    (last.op = "script_run" /\ last.pre.shown # None)
        => LET selection == Val(last.pre.at_render)
               adjacent_districts ==
                   IF TruthyList(selection.comparison_districts)
                   THEN Some(selection.comparison_districts) ELSE None
               shown == session_state[Val(last.pre.shown)]
           IN  CASE shown.kind = "district_zoom" ->
                        shown = create_district_zoom_map(
                                    selection.selected_district,
                                    adjacent_districts,
                                    selection.comparison_mode)
                 [] shown.kind = "gu_ranking" ->
                        shown = create_gu_ranking_map(
                                    selection.selected_quintile,
                                    selection.selected_district,
                                    adjacent_districts,
                                    selection.comparison_mode)
                 [] OTHER -> TRUE

(***************************************************************************)
(* C25: in the application, at the start of every script run, a session in *)
(* the overview or in the ranking view has no selected district, no        *)
(* comparison mode and no comparison districts.                            *)
(***************************************************************************)
C25_NoSelectionOutsideDistrictViews ==
    session_state.view_stage \in {"overview", "gu_ranking"}
        => /\ session_state.selected_district = None
           /\ session_state.comparison_mode = None
           /\ session_state.comparison_districts = <<>>

\* A session that has rendered the zoom map of D03 with its comparison
\* districts, and that a mode button has brought to the ranking view.
C25_Witness ==
    /\ last.op = "script_run"
    /\ last.arg = ModeButton("gu_ranking")
    /\ session_state.view_stage = "gu_ranking"
    /\ "__MAP_HTML_DISTRICT_ZOOM_D03___adj_D02_D04" \in last.rendered_keys
    /\ session_state.selected_district = None

(***************************************************************************)
(* C26: in the application, in every state between two script runs, a      *)
(* comparison mode is set only in the comparison view with a district      *)
(* selected, and comparison districts are stored only under a comparison   *)
(* mode.                                                                   *)
(***************************************************************************)
C26_ComparisonOnlyInComparisonView ==
    /\ session_state.comparison_mode # None
           => /\ session_state.view_stage = "comparison"
              /\ HasDistrict(session_state)
    /\ session_state.comparison_districts # <<>>
           => session_state.comparison_mode # None

\* A run in the comparison view that has stored the similar-price districts
\* of the selected district.
C26_Witness ==
    /\ last.op = "script_run"
    /\ last.ret = "done"
    /\ session_state.view_stage = "comparison"
    /\ session_state.selected_district = Some("D03")
    /\ session_state.comparison_mode = Some("similar_price")
    /\ session_state.comparison_districts # <<>>

(***************************************************************************)
(* C27: in the application, whenever the comparison districts are not      *)
(* empty at the time a run renders the map and the view, they are a result *)
(* of the finder of the comparison mode of that time for the district      *)
(* selected at that time.                                                  *)
(***************************************************************************)
C27_ComparisonDistrictsOfCurrentSelection ==
    (/\ last.op = "script_run"
     /\ last.pre.at_render # None
     /\ Val(last.pre.at_render).comparison_districts # <<>>)
        => LET selection == Val(last.pre.at_render)
           IN  /\ TruthyStr(selection.selected_district)
               /\ TruthyStr(selection.comparison_mode)
               /\ selection.comparison_districts
                      \in FinderResults(Val(selection.selected_district),
                                        Val(selection.comparison_mode))

\* A run that renders the comparison view of D03 with the similar-price
\* districts, nearest first, in a session that has rendered the zoom map
\* with the adjacent districts of D03, in the order of the boundary file,
\* before.
C27_Witness ==
    /\ last.op = "script_run"
    /\ last.pre.at_render # None
    /\ Val(last.pre.at_render).selected_district = Some("D03")
    /\ Val(last.pre.at_render).comparison_mode = Some("similar_price")
    /\ Val(last.pre.at_render).comparison_districts = <<"D04", "D02">>
    /\ FinderResults("D03", "adjacent") = {<<"D02", "D04">>}
    /\ "__MAP_HTML_DISTRICT_ZOOM_D03___adj_D02_D04" \in DOMAIN session_state
    /\ session_state["__MAP_HTML_DISTRICT_ZOOM_D03___adj_D02_D04"].colour = "#FF8C00"

(***************************************************************************)
(* C28: a run started by submitting a non-empty text in the chat input     *)
(* ends with a user message of that text followed by an assistant message  *)
(* at the end of the chat history, whatever the text is and whether the    *)
(* LLM call returns or raises.                                             *)
(***************************************************************************)
C28_ChatTextAnswered ==
    (/\ last.op = "script_run"
     /\ last.arg.widget = "chat_input"
     /\ last.arg.text # "")
        => LET messages == session_state.messages
               n == Len(messages)
           IN  /\ n >= 2
               /\ messages[n - 1] = [role |-> "user",
                                     content |-> last.arg.text]
               /\ messages[n].role = "assistant"

(***************************************************************************)
(* C29: with a selected district that is not in the ranking, a script run  *)
(* in the district view or in the comparison view does not raise, and the  *)
(* session it leaves is valid.                                             *)
(***************************************************************************)
C29_AbsentDistrictNeverFatal ==
    [][(/\ HasDistrict(session_state)
        /\ RankingRows(Val(session_state.selected_district)) = <<>>
        /\ session_state.view_stage \in {"district_selected", "comparison"}
        /\ last'.op = "script_run")
       => /\ last'.ret # "raised"
          /\ validate_session_state(session_state')
      ]_vars

(***************************************************************************)
(* C30: a rank a run reports for a district, in a selection message or in  *)
(* the context given to the LLM, is the 1-based position of the district   *)
(* in the ranking, so it lies between 1 and the number of districts.       *)
(***************************************************************************)
C30_ReportedRankIsPosition ==
    last.op = "script_run"
        => \A report \in last.pre.reported :
               /\ report[2] \in 1..Len(gugun_ranking_df)
               /\ gugun_ranking_df[report[2]].gugun = report[1]

====
